---- MODULE Spec2Model ----
(***************************************************************************)
(* Stereo-group lifecycle of soundcork: the group records kept as files by *)
(* DataStore (src/soundcork/datastore.py) and the create / rename / remove *)
(* service flows of the groups router (src/soundcork/groups.py), which     *)
(* talk to the two boxes of a pair.                                         *)
(*                                                                         *)
(* Texts whose XML escaping matters (group names, group ids, file names)   *)
(* are sequences of one-character strings; device ids and addresses are    *)
(* plain strings.                                                          *)
(***************************************************************************)
EXTENDS Integers, Sequences, FiniteSets, TLC

(* ------------------------------ bounds -------------------------------- *)

\* random.randint(0, 9999999) is cut down to 0..MaxId: the id namespace of
\* the model has MaxId + 1 ids.
MaxId == 1

(* ----------------------------- constants ------------------------------ *)

\* f"{n:07d}"
IdWidth == 7
\* the status the flows accept from a box
HTTP_OK == 200
\* the statuses a box answers with in the model
Statuses == {200, 500}

\* The request slots: two requests can be in progress at the same time.
Flows == {1, 2}

(* ------------------------------- texts -------------------------------- *)

StartsWith(s, p) == Len(s) >= Len(p) /\ SubSeq(s, 1, Len(p)) = p
EndsWith(s, p) == Len(s) >= Len(p) /\ SubSeq(s, Len(s) - Len(p) + 1, Len(s)) = p
Drop(s, n) == SubSeq(s, n + 1, Len(s))

\* str.strip() on a text: leading and trailing blanks removed
RECURSIVE LStrip(_)
LStrip(s) == IF s # <<>> /\ Head(s) = " " THEN LStrip(Tail(s)) ELSE s
RECURSIVE RStrip(_)
RStrip(s) ==
    IF s # <<>> /\ s[Len(s)] = " " THEN RStrip(SubSeq(s, 1, Len(s) - 1)) ELSE s
Strip(s) == RStrip(LStrip(s))

\* ElementTree's escaping of element text on output
EscChar(c) ==
    IF c = "&" THEN <<"&", "a", "m", "p", ";">>
    ELSE IF c = "<" THEN <<"&", "l", "t", ";">>
    ELSE IF c = ">" THEN <<"&", "g", "t", ";">>
    ELSE <<c>>

\* _escape_cdata writing the text as it is
_escape_cdata_raw(t) == t

RECURSIVE _escape_cdata(_)
_escape_cdata(t) ==
    IF t = <<>> THEN <<>> ELSE EscChar(Head(t)) \o _escape_cdata(Tail(t))

\* The parser's reading of element text: entity references are replaced, a
\* bare "&" or "<" ends the parse with an error.
BadText == [ok |-> FALSE, text |-> <<>>]
Cons(c, r) == IF r.ok THEN [ok |-> TRUE, text |-> <<c>> \o r.text] ELSE BadText

RECURSIVE ParseText(_)
ParseText(s) ==
    IF s = <<>> THEN [ok |-> TRUE, text |-> <<>>]
    ELSE IF Head(s) = "<" THEN BadText
    ELSE IF Head(s) = "&" THEN
        IF StartsWith(s, <<"&", "a", "m", "p", ";">>) THEN Cons("&", ParseText(Drop(s, 5)))
        ELSE IF StartsWith(s, <<"&", "l", "t", ";">>) THEN Cons("<", ParseText(Drop(s, 4)))
        ELSE IF StartsWith(s, <<"&", "g", "t", ";">>) THEN Cons(">", ParseText(Drop(s, 4)))
        ELSE BadText
    ELSE Cons(Head(s), ParseText(Tail(s)))

(* ----------------------------- group ids ------------------------------ *)

DigitChar == <<"0", "1", "2", "3", "4", "5", "6", "7", "8", "9">>

RECURSIVE Decimal(_)
Decimal(n) ==
    IF n < 10 THEN <<DigitChar[n + 1]>>
    ELSE Decimal(n \div 10) \o <<DigitChar[(n % 10) + 1]>>

RECURSIVE ZeroPad(_, _)
ZeroPad(s, w) == IF Len(s) >= w THEN s ELSE ZeroPad(<<"0">> \o s, w)

\* f"{n:07d}"
Fmt07(n) == ZeroPad(Decimal(n), IdWidth)

GroupPrefix == <<"G", "r", "o", "u", "p", "_">>
XmlExt == <<".", "x", "m", "l">>

\* f"Group_{group_id}.xml"
GroupFile(group_id) == GroupPrefix \o group_id \o XmlExt

\* filename[len("Group_") : -len(".xml")]
IdOfFile(fn) == SubSeq(fn, Len(GroupPrefix) + 1, Len(fn) - Len(XmlExt))

IsGroupFile(fn) == StartsWith(fn, GroupPrefix) /\ EndsWith(fn, XmlExt)

(* ------------------------------ devices ------------------------------- *)

\* The device directories of the account: d1..d4 are SoundTouch 10 boxes,
\* d5 is another model; d9 has no directory.
KnownDevices == {"d1", "d2", "d3", "d4", "d5"}
RequestDevices == KnownDevices \cup {"d9", ""}

DeviceName ==
    [d \in KnownDevices |->
        CASE d = "d1" -> <<"A">>
          [] d = "d2" -> <<"B", "&">>
          [] d = "d3" -> <<"<", "C">>
          [] d = "d4" -> <<"D", ">">>
          [] OTHER -> <<"E">>]

DeviceIp == [d \in KnownDevices |-> "ip-" \o d]

DeviceType ==
    [d \in KnownDevices |-> IF d = "d5" THEN "SoundTouch 20" ELSE "SoundTouch 10"]

\* Entries of the devices directory that are device directories.
DeviceDirs == {<<d>> : d \in KnownDevices}

\* DataStore.get_device_info: raises when the device has no info file.
get_device_info(device) ==
    IF device \in KnownDevices
    THEN [ok |-> TRUE, name |-> DeviceName[device], ip_address |-> DeviceIp[device]]
    ELSE [ok |-> FALSE, name |-> <<>>, ip_address |-> ""]

\* DataStore.check_device_type
check_device_type(device_id) ==
    device_id \in KnownDevices /\ DeviceType[device_id] = "SoundTouch 10"

(* ---------------------------- group documents ------------------------- *)

\* An element tree of a group: id is the root's id attribute (<<>> when it
\* has none), an absent element and an empty one are both the empty text.
NoId == <<>>

GroupRole(deviceId, role, ipAddress) ==
    [deviceId |-> deviceId, role |-> role, ipAddress |-> ipAddress]

\* The text of a document: element texts escaped, with or without the XML
\* declaration; closed is FALSE for a file cut short by a partial write.
ET_tostring(root, decl) ==
    [decl |-> decl, closed |-> TRUE, id |-> root.id,
     name |-> _escape_cdata(root.name),
     masterDeviceId |-> root.masterDeviceId,
     roles |-> root.roles,
     senderIPAddress |-> root.senderIPAddress]

EmptyDoc ==
    [id |-> NoId, name |-> <<>>, masterDeviceId |-> "", roles |-> <<>>,
     senderIPAddress |-> ""]

\* ET.fromstring / ET.parse: ok is FALSE for ET.ParseError
ET_fromstring(text) ==
    LET nm == ParseText(text.name) IN
    IF text.closed /\ nm.ok
    THEN [ok |-> TRUE,
          root |-> [id |-> text.id, name |-> nm.text,
                    masterDeviceId |-> text.masterDeviceId,
                    roles |-> text.roles,
                    senderIPAddress |-> text.senderIPAddress]]
    ELSE [ok |-> FALSE, root |-> EmptyDoc]

\* DataStore._pretty_xml: indentation changes no element text
_pretty_xml(root) == ET_tostring(root, TRUE)

\* A file whose write was cut short.
Truncated == [ET_tostring(EmptyDoc, TRUE) EXCEPT !.closed = FALSE]

\* groups._build_group_payload_no_id
_build_group_payload_no_id(name, master_id, master_ip, slave_id, slave_ip) ==
    ET_tostring([id |-> NoId, name |-> name, masterDeviceId |-> master_id,
              roles |-> <<GroupRole(master_id, "LEFT", master_ip),
                          GroupRole(slave_id, "RIGHT", slave_ip)>>,
              senderIPAddress |-> master_ip], TRUE)

\* [d.text for d in root.findall("./roles/groupRole/deviceId") if d.text]
RoleDeviceIds(root) ==
    LET withId == SelectSeq(root.roles, LAMBDA r : r.deviceId # "") IN
    [i \in 1..Len(withId) |-> withId[i].deviceId]

\* root.findall(".//deviceId"), as the set of their texts
AllDeviceIds(root) == {root.roles[i].deviceId : i \in 1..Len(root.roles)}

SeqToSet(s) == {s[i] : i \in 1..Len(s)}

(* ------------------------------ DataStore ----------------------------- *)

\* The result of a DataStore group operation: the XML text written, or an
\* error message. Messages are kept by kind with the values they name.
Msg(k, dev, grp) == [k |-> k, dev |-> dev, grp |-> grp]
XmlResult(text) == [isXml |-> TRUE, text |-> text, msg |-> Msg("", "", NoId)]
ErrResult(k, dev, grp) ==
    [isXml |-> FALSE, text |-> ET_tostring(EmptyDoc, FALSE), msg |-> Msg(k, dev, grp)]

\* The files are keyed by their path from the devices directory of the
\* account served: a name for a file of that directory, and a path through
\* the data directory for a file of the devices directory of another
\* account.
PathSep == "/"
OtherDevicesDir == <<"..", PathSep, "..", PathSep, "B", PathSep, "devices", PathSep>>
IsEntry(fn) == \A i \in 1..Len(fn) : fn[i] # PathSep

\* listdir(devices_dir): the entries of the directory itself
ListDir(fs) == {x \in DOMAIN fs : IsEntry(x)} \cup DeviceDirs

\* DataStore.list_groups
list_groups(fs) == {IdOfFile(fn) : fn \in {x \in ListDir(fs) : IsGroupFile(x)}}

\* group_exists finding no file
group_exists_never(fs, group_id) == FALSE

\* DataStore.group_exists, path.exists(filepath)
group_exists(fs, group_id) == GroupFile(group_id) \in DOMAIN fs

\* DataStore._generate_group_id: the ids the loop can return. When the set
\* is empty the loop draws for ever.
_generate_group_id(fs) ==
    {Fmt07(n) : n \in {k \in 0..MaxId : ~group_exists(fs, Fmt07(k))}}

\* check_device_grouped giving up at a file that does not parse
check_device_grouped_aborts(fs, device_id) ==
    IF \E x \in ListDir(fs) : IsGroupFile(x) /\ ~ET_fromstring(fs[x]).ok
    THEN {}
    ELSE {IdOfFile(fn) : fn \in
            {x \in ListDir(fs) :
                /\ IsGroupFile(x)
                /\ device_id \in AllDeviceIds(ET_fromstring(fs[x]).root)}}

\* check_device_grouped scanning the group files of every account
check_device_grouped_all_accounts(fs, device_id) ==
    {IdOfFile(fn) : fn \in
        {x \in DOMAIN fs :
            /\ EndsWith(x, XmlExt)
            /\ LET tree == ET_fromstring(fs[x]) IN
               tree.ok /\ device_id \in AllDeviceIds(tree.root)}}

\* check_device_grouped looking for the device id in the text of the file,
\* parsable or not
check_device_grouped_reads_text(fs, device_id) ==
    {IdOfFile(fn) : fn \in
        {x \in ListDir(fs) :
            /\ IsGroupFile(x)
            /\ \E i \in 1..Len(fs[x].roles) : fs[x].roles[i].deviceId = device_id}}

\* DataStore.check_device_grouped: the ids it can return (listdir's order is
\* not fixed, the first matching file wins); unparsable files are skipped.
\* The empty set stands for None.
check_device_grouped(fs, device_id) ==
    {IdOfFile(fn) : fn \in
        {x \in ListDir(fs) :
            /\ IsGroupFile(x)
            /\ LET tree == ET_fromstring(fs[x]) IN
               tree.ok /\ device_id \in AllDeviceIds(tree.root)}}

\* DataStore.device_exists: the device has a directory in the account
device_exists(device_id) == <<device_id>> \in DeviceDirs

\* The text "<group/>"
UngroupedMarker == [isXml |-> FALSE, text |-> ET_tostring(EmptyDoc, FALSE),
                    msg |-> Msg("<group/>", "", NoId)]

\* get_device_group_xml without the check of the device type
get_device_group_xml_any_type(fs, device_id) ==
    IF device_id \notin KnownDevices
    THEN {ErrResult("DeviceMissing", device_id, NoId)}
    ELSE IF check_device_grouped(fs, device_id) = {}
    THEN {UngroupedMarker}
    ELSE {XmlResult(fs[GroupFile(grouped_in)]) :
              grouped_in \in check_device_grouped(fs, device_id)}

\* DataStore.get_device_group_xml: the texts it can return
get_device_group_xml(fs, device_id) ==
    IF device_id \notin KnownDevices
    THEN {ErrResult("DeviceMissing", device_id, NoId)}
    ELSE IF ~check_device_type(device_id)
    THEN {ErrResult("TypeMismatch", device_id, NoId)}
    ELSE IF check_device_grouped(fs, device_id) = {}
    THEN {UngroupedMarker}
    ELSE {XmlResult(fs[GroupFile(grouped_in)]) :
              grouped_in \in check_device_grouped(fs, device_id)}

\* validate_group_xml without the check that the master is in the roles
validate_group_xml_any_master(xml_content) ==
    LET p == ET_fromstring(xml_content)
        root == p.root
    IN  IF ~p.ok THEN "InvalidXML"
        ELSE IF Strip(root.name) = <<>> THEN "MissingOrEmptyName"
        ELSE IF root.masterDeviceId = "" THEN "MissingMaster"
        ELSE IF RoleDeviceIds(root) = <<>> THEN "NoRoleEntries"
        ELSE ""

\* validate_group_xml looking at the master before the name
validate_group_xml_master_first(xml_content) ==
    LET p == ET_fromstring(xml_content)
        root == p.root
    IN  IF ~p.ok THEN "InvalidXML"
        ELSE IF root.masterDeviceId = "" THEN "MissingMaster"
        ELSE IF Strip(root.name) = <<>> THEN "MissingOrEmptyName"
        ELSE IF RoleDeviceIds(root) = <<>> THEN "NoRoleEntries"
        ELSE IF root.masterDeviceId \notin SeqToSet(RoleDeviceIds(root))
             THEN "MasterNotInRoles"
        ELSE ""

\* DataStore.validate_group_xml: "" when the document is accepted, else the
\* kind of the ValueError raised.
validate_group_xml(xml_content) ==
    LET p == ET_fromstring(xml_content)
        root == p.root
    IN  IF ~p.ok THEN "InvalidXML"
        ELSE IF Strip(root.name) = <<>> THEN "MissingOrEmptyName"
        ELSE IF root.masterDeviceId = "" THEN "MissingMaster"
        ELSE IF RoleDeviceIds(root) = <<>> THEN "NoRoleEntries"
        ELSE IF root.masterDeviceId \notin SeqToSet(RoleDeviceIds(root))
             THEN "MasterNotInRoles"
        ELSE ""

\* Writing a file: open(filepath, "w") and f.write(xml_out)
WriteFile(fs, fn, text) ==
    [x \in DOMAIN fs \cup {fn} |-> IF x = fn THEN text ELSE fs[x]]

\* os.remove(filepath)
RemoveFile(fs, fn) == [x \in DOMAIN fs \ {fn} |-> fs[x]]

\* add_group_checks with the membership loop leaving after its first device
add_group_checks_first_device(fs, group_info_xml, group_id) ==
    LET v == validate_group_xml(group_info_xml)
        root == ET_fromstring(group_info_xml).root
        device_ids == RoleDeviceIds(root)
        wrongType == {i \in 1..Len(device_ids) : ~check_device_type(device_ids[i])}
        First(S) == CHOOSE i \in S : \A j \in S : i <= j
    IN  IF group_exists(fs, group_id) THEN {ErrResult("GroupExists", "", group_id)}
        ELSE IF v # "" THEN {ErrResult(v, "", NoId)}
        ELSE IF Len(device_ids) # 2 THEN {ErrResult("WrongMemberCount", "", NoId)}
        ELSE IF check_device_grouped(fs, device_ids[1]) # {}
             THEN {ErrResult("Conflict", device_ids[1], g) :
                       g \in check_device_grouped(fs, device_ids[1])}
        ELSE IF wrongType # {}
             THEN {ErrResult("TypeMismatch", device_ids[First(wrongType)], NoId)}
        ELSE {}

\* DataStore.add_group, the checks between drawing the id and writing the
\* file: the error results it can return; the empty set when all pass.
add_group_checks(fs, group_info_xml, group_id) ==
    LET v == validate_group_xml(group_info_xml)
        root == ET_fromstring(group_info_xml).root
        device_ids == RoleDeviceIds(root)
        grouped == {i \in 1..Len(device_ids) :
                        check_device_grouped(fs, device_ids[i]) # {}}
        wrongType == {i \in 1..Len(device_ids) : ~check_device_type(device_ids[i])}
        First(S) == CHOOSE i \in S : \A j \in S : i <= j
    IN  IF group_exists(fs, group_id) THEN {ErrResult("GroupExists", "", group_id)}
        ELSE IF v # "" THEN {ErrResult(v, "", NoId)}
        ELSE IF Len(device_ids) # 2 THEN {ErrResult("WrongMemberCount", "", NoId)}
        ELSE IF grouped # {}
             THEN {ErrResult("Conflict", device_ids[First(grouped)], g) :
                       g \in check_device_grouped(fs, device_ids[First(grouped)])}
        ELSE IF wrongType # {}
             THEN {ErrResult("TypeMismatch", device_ids[First(wrongType)], NoId)}
        ELSE {}

\* add_group_write storing the document with the id attribute it came with
add_group_write_keeps_id(fs, group_info_xml, group_id) ==
    LET root == ET_fromstring(group_info_xml).root
        xml_out == _pretty_xml(root)
    IN  [result |-> XmlResult(xml_out),
         files |-> WriteFile(fs, GroupFile(group_id), xml_out)]

\* DataStore.add_group, after the checks: the id is set on the root, the
\* pretty-printed text is written to the file and returned.
add_group_write(fs, group_info_xml, group_id) ==
    LET root == ET_fromstring(group_info_xml).root
        xml_out == _pretty_xml([root EXCEPT !.id = group_id])
    IN  [result |-> XmlResult(xml_out),
         files |-> WriteFile(fs, GroupFile(group_id), xml_out)]

\* DataStore.add_group once its first line has drawn group_id: what it can
\* return, with the files it leaves.
add_group_with_id(fs, group_info_xml, group_id) ==
    IF add_group_checks(fs, group_info_xml, group_id) # {}
    THEN {[returns |-> TRUE, result |-> e, files |-> fs] :
              e \in add_group_checks(fs, group_info_xml, group_id)}
    ELSE {[returns |-> TRUE] @@ add_group_write(fs, group_info_xml, group_id)}

\* add_group giving up with an error when no id is free
add_group_gives_up(fs, group_info_xml) ==
    IF _generate_group_id(fs) = {}
    THEN {[returns |-> TRUE, result |-> ErrResult("NoFreeId", "", NoId), files |-> fs]}
    ELSE UNION {add_group_with_id(fs, group_info_xml, group_id) :
                    group_id \in _generate_group_id(fs)}

\* DataStore.add_group. Its first line draws the id: with no free id the
\* call never returns.
add_group(fs, group_info_xml) ==
    IF _generate_group_id(fs) = {}
    THEN {[returns |-> FALSE, result |-> ErrResult("", "", NoId), files |-> fs]}
    ELSE UNION {add_group_with_id(fs, group_info_xml, group_id) :
                    group_id \in _generate_group_id(fs)}

\* delete_group reporting success with the file left in the directory
delete_group_keeps_file(fs, group_id) ==
    IF ~group_exists(fs, group_id)
    THEN [error |-> "GroupMissing", files |-> fs]
    ELSE [error |-> "", files |-> fs]

\* DataStore.delete_group: error is "" on success
delete_group(fs, group_id) ==
    IF ~group_exists(fs, group_id)
    THEN [error |-> "GroupMissing", files |-> fs]
    ELSE [error |-> "", files |-> RemoveFile(fs, GroupFile(group_id))]

\* modify_group writing a document made of the new name and the master only
modify_group_rebuilds(fs, group_id, new_name, master_device_id) ==
    LET group_file == GroupFile(group_id)
        p == ET_fromstring(fs[group_file])
        xml_out == _pretty_xml([EmptyDoc EXCEPT !.id = group_id, !.name = new_name,
                                                !.masterDeviceId = master_device_id])
    IN  IF ~group_exists(fs, group_id)
        THEN [result |-> ErrResult("GroupMissing", "", group_id), files |-> fs]
        ELSE IF ~p.ok
        THEN [result |-> ErrResult("StoredInvalid", "", group_id), files |-> fs]
        ELSE IF p.root.masterDeviceId = ""
        THEN [result |-> ErrResult("NoStoredMaster", "", group_id), files |-> fs]
        ELSE IF p.root.masterDeviceId # master_device_id
        THEN [result |-> ErrResult("MasterMismatch", "", group_id), files |-> fs]
        ELSE [result |-> XmlResult(xml_out),
              files |-> WriteFile(fs, group_file, xml_out)]

\* DataStore.modify_group
modify_group(fs, group_id, new_name, master_device_id) ==
    LET group_file == GroupFile(group_id)
        p == ET_fromstring(fs[group_file])
        xml_out == _pretty_xml([p.root EXCEPT !.name = new_name])
    IN  IF ~group_exists(fs, group_id)
        THEN [result |-> ErrResult("GroupMissing", "", group_id), files |-> fs]
        ELSE IF ~p.ok
        THEN [result |-> ErrResult("StoredInvalid", "", group_id), files |-> fs]
        ELSE IF p.root.masterDeviceId = ""
        THEN [result |-> ErrResult("NoStoredMaster", "", group_id), files |-> fs]
        ELSE IF p.root.masterDeviceId # master_device_id
        THEN [result |-> ErrResult("MasterMismatch", "", group_id), files |-> fs]
        ELSE [result |-> XmlResult(xml_out),
              files |-> WriteFile(fs, group_file, xml_out)]


(* --------------------------- marge endpoints -------------------------- *)

\* result.lstrip().startswith("<?xml")
StartsWithXmlDecl(result) == result.isXml /\ result.text.decl

\* A BoseXMLResponse: the DataStore result, wrapped in <error>...</error>
\* or not.
BoseXMLResponse(result, wrapped, status_code) ==
    [result |-> result, wrapped |-> wrapped, status_code |-> status_code]

\* groups.add_group_endpoint and mod_group_endpoint, from the DataStore
\* result to the response
EndpointResponse(result) ==
    IF StartsWithXmlDecl(result)
    THEN BoseXMLResponse(result, FALSE, 200)
    ELSE BoseXMLResponse(result, TRUE, 400)

\* groups.add_group_endpoint for an existing account
add_group_endpoint(fs, reqxml_str) ==
    IF ~ET_fromstring(reqxml_str).ok
    THEN {[returns |-> TRUE,
           resp |-> BoseXMLResponse(ErrResult("InvalidXMLPayload", "", NoId), TRUE, 400),
           files |-> fs]}
    ELSE {[returns |-> o.returns, resp |-> EndpointResponse(o.result),
           files |-> o.files] : o \in add_group(fs, reqxml_str)}

\* groups.delete_group_endpoint for an existing account
delete_group_endpoint(fs, group) ==
    LET d == delete_group(fs, group) IN
    [status_code |-> IF d.error # "" THEN 400 ELSE 200, files |-> d.files]

\* groups.mod_group_endpoint for an existing account
mod_group_endpoint(fs, group, xml_str) ==
    LET p == ET_fromstring(xml_str)
        m == modify_group(fs, group, p.root.name, p.root.masterDeviceId)
    IN  IF ~p.ok
        THEN [resp |-> BoseXMLResponse(ErrResult("InvalidXMLPayload", "", NoId), TRUE, 400),
              files |-> fs]
        ELSE IF p.root.name = <<>>
        THEN [resp |-> BoseXMLResponse(ErrResult("MissingGroupName", "", NoId), TRUE, 400),
              files |-> fs]
        ELSE IF p.root.masterDeviceId = ""
        THEN [resp |-> BoseXMLResponse(ErrResult("MissingMaster", "", NoId), TRUE, 400),
              files |-> fs]
        ELSE [resp |-> EndpointResponse(m.result), files |-> m.files]

\* groups.device_group_status for an existing account: the responses it
\* can give
device_group_status(fs, device) ==
    IF ~device_exists(device)
    THEN {BoseXMLResponse(ErrResult("DeviceNotFound", device, NoId), TRUE, 400)}
    ELSE {IF ~StartsWithXmlDecl(result) /\ result # UngroupedMarker
          THEN BoseXMLResponse(result, TRUE, 400)
          ELSE BoseXMLResponse(result, FALSE, 200) :
              result \in get_device_group_xml(fs, device)}

(* ----------------------- helpers of the service flows ------------------ *)

\* _group_id_by_name taking any group that parses, whatever its name
_group_id_by_name_any(fs, name) ==
    {g \in list_groups(fs) : ET_fromstring(fs[GroupFile(g)]).ok}

\* groups._group_id_by_name: the ids it can return (the first file in
\* list_groups' order whose name matches); files that do not parse are
\* skipped. The empty set stands for None.
_group_id_by_name(fs, name) ==
    {g \in list_groups(fs) :
        LET tree == ET_fromstring(fs[GroupFile(g)]) IN
        tree.ok /\ Strip(tree.root.name) = name}

\* list(dict.fromkeys(ips))
RECURSIVE Dedup(_)
Dedup(q) ==
    IF q = <<>> THEN <<>>
    ELSE LET front == Dedup(SubSeq(q, 1, Len(q) - 1)) IN
         IF q[Len(q)] \in SeqToSet(front) THEN front ELSE front \o <<q[Len(q)]>>

\* _extract_group_ips keeping the entries without an address
_extract_group_ips_with_blank(group_xml) ==
    LET root == ET_fromstring(group_xml).root
    IN  Dedup([i \in 1..Len(root.roles) |-> root.roles[i].ipAddress])

\* groups._extract_group_ips of a text that parses
_extract_group_ips(group_xml) ==
    LET root == ET_fromstring(group_xml).root
        withIp == SelectSeq(root.roles, LAMBDA r : r.ipAddress # "")
    IN  Dedup([i \in 1..Len(withIp) |-> withIp[i].ipAddress])

\* groups._extract_master_device_id of a text that parses
_extract_master_device_id(group_xml) == ET_fromstring(group_xml).root.masterDeviceId

\* _extract_master_ip taking the first role entry's address whatever the
\* document names as sender
_extract_master_ip_first_role(group_xml) ==
    LET ips == _extract_group_ips(group_xml)
    IN  IF ips # <<>> THEN ips[1] ELSE ""

\* _extract_master_ip falling back to the address the account has
\* registered for the master device
_extract_master_ip_registered(group_xml) ==
    LET root == ET_fromstring(group_xml).root
        ips == _extract_group_ips(group_xml)
    IN  IF root.senderIPAddress # "" THEN root.senderIPAddress
        ELSE IF ips # <<>> THEN ips[1]
        ELSE get_device_info(root.masterDeviceId).ip_address

\* groups._extract_master_ip of a text that parses
_extract_master_ip(group_xml) ==
    LET sender == ET_fromstring(group_xml).root.senderIPAddress
        ips == _extract_group_ips(group_xml)
    IN  IF sender # "" THEN sender ELSE IF ips # <<>> THEN ips[1] ELSE ""

\* "<error" in text: the endpoint wrapped a message (element texts are
\* escaped, so a document's own text never holds the tag)
HasErrorTag(resp) == resp.wrapped

\* "<group" in text: a group document, or a message that spells out a tag
\* starting with <group ("No <groupRole>/<deviceId> entries found")
HasGroupTag(resp) ==
    IF resp.result.isXml THEN TRUE ELSE resp.result.msg.k = "NoRoleEntries"

(* ------------------------------ the boxes ----------------------------- *)

\* A response text of a box, by what the flows look for in it: whether it
\* is blank, holds "GROUP_OK", holds "<group/>" once blanks are removed,
\* parses as XML, and then its root tag and number of children.
Body(txt, blank, group_ok, empty_tag, parses, root, children) ==
    [txt |-> txt, blank |-> blank, group_ok |-> group_ok, empty_tag |-> empty_tag,
     parses |-> parses, root |-> root, children |-> children]

B_ok == Body("<status>GROUP_OK</status>", FALSE, TRUE, FALSE, TRUE, "status", 0)
B_err == Body("<status>GROUP_ERROR</status>", FALSE, FALSE, FALSE, TRUE, "status", 0)
B_empty == Body("<group />", FALSE, FALSE, TRUE, TRUE, "group", 0)
B_emptyPair == Body("<group></group>", FALSE, FALSE, FALSE, TRUE, "group", 0)
B_group == Body("<group id=..><name>..</name>..</group>", FALSE, FALSE, FALSE, TRUE, "group", 1)
B_blank == Body("  ", TRUE, FALSE, FALSE, FALSE, "", 0)
B_garbage == Body("not xml", FALSE, FALSE, FALSE, FALSE, "", 0)

\* What one _box_call can come back with: an exception, or (status, text).
Pending == [state |-> "pending", status |-> 0, body |-> B_blank]
Raised == [state |-> "raised", status |-> 0, body |-> B_blank]
Replied(status, body) == [state |-> "replied", status |-> status, body |-> body]

PostOutcomes == {Raised} \cup {Replied(st, b) : st \in Statuses, b \in {B_ok, B_err}}
GetOutcomes ==
    {Raised} \cup
    {Replied(st, b) : st \in Statuses,
                      b \in {B_empty, B_emptyPair, B_group, B_blank, B_garbage}}

BOSE_ADDGROUP == "/addGroup"
BOSE_UPDATEGROUP == "/updateGroup"
BOSE_REMOVEGROUP == "/removeGroup"

BoxCall(path, ip) == [path |-> path, ip |-> ip, out |-> Pending]

\* _is_group_empty_xml without its parse of the text
_is_group_empty_xml_tag_only(text) == ~text.blank /\ text.empty_tag

\* groups._is_group_empty_xml
_is_group_empty_xml(text) ==
    IF text.blank THEN FALSE
    ELSE IF text.empty_tag THEN TRUE
    ELSE IF text.parses THEN text.root = "group" /\ text.children = 0
    ELSE FALSE

\* groups._xml_status
_xml_status(ok) ==
    [code |-> IF ok THEN 200 ELSE 500,
     kind |-> IF ok THEN "GROUP_OK" ELSE "GROUP_ERROR",
     msg |-> Msg("", "", NoId)]

\* Response("<error>...</error>", status_code=...)
ErrorResponse(code, msg) == [code |-> code, kind |-> "error", msg |-> msg]

(* ------------------------------- state -------------------------------- *)

VARIABLES
    files,  \* the Group_*.xml files of the account's devices directory
    pc,     \* per request slot: idle, gather, removing, done, spin; in the
            \* two-process specification also writing and drawing
    op,     \* the service flow the slot runs
    arg,    \* its query parameters
    gid,    \* the group id the flow works on
    calls,  \* the _box_call tasks it has created, with what came back
    res     \* the Response it returned

vars == <<files, pc, op, arg, gid, calls, res>>

NoArg == [master |-> "", slave |-> "", groupid |-> NoId, name |-> <<>>, newname |-> <<>>]
NoRes == [code |-> 0, kind |-> "", msg |-> Msg("", "", NoId)]

NoFiles == [x \in {} |-> Truncated]

Init ==
    /\ files \in {NoFiles, [x \in {GroupFile(Fmt07(0))} |-> Truncated]}
    /\ pc = [f \in Flows |-> "idle"]
    /\ op = [f \in Flows |-> ""]
    /\ arg = [f \in Flows |-> NoArg]
    /\ gid = [f \in Flows |-> NoId]
    /\ calls = [f \in Flows |-> <<>>]
    /\ res = [f \in Flows |-> NoRes]

\* A handler that never returns keeps the event loop, and no other handler
\* of the process runs any more: add_group is a plain function called from
\* a coroutine.
Hung == \E f \in Flows : pc[f] = "spin"

\* The handler of slot f returns response r.
Finish(f, r) ==
    /\ pc' = [pc EXCEPT ![f] = "done"]
    /\ res' = [res EXCEPT ![f] = r]

(* --------------------------- service flows ---------------------------- *)

\* groups.service_creategroup, the payload it builds for two known devices
CreatePayload(master, slave) ==
    _build_group_payload_no_id(
        get_device_info(master).name \o <<" ", "+", " ">> \o get_device_info(slave).name,
        master, get_device_info(master).ip_address,
        slave, get_device_info(slave).ip_address)

\* groups.service_creategroup, before the datastore is asked: the response
\* to a request that stops there
CreateRejected(master, slave) ==
    IF master = "" \/ slave = ""
    THEN {ErrorResponse(400, Msg("Usage", "", NoId))}
    ELSE IF ~get_device_info(master).ok
    THEN {ErrorResponse(400, Msg("DeviceInfo", master, NoId))}
    ELSE IF ~get_device_info(slave).ok
    THEN {ErrorResponse(400, Msg("DeviceInfo", slave, NoId))}
    ELSE {}

\* CreateAfterLocal without the early return on an error of the datastore
CreateAfterLocal_no_early_return(f, o) ==
    IF ~o.returns
    THEN /\ pc' = [pc EXCEPT ![f] = "spin"]
         /\ UNCHANGED <<files, gid, calls, res>>
    ELSE /\ files' = o.files
         /\ gid' = [gid EXCEPT ![f] = IF o.resp.result.isXml
                                      THEN o.resp.result.text.id ELSE NoId]
         /\ calls' = [calls EXCEPT ![f] =
                <<BoxCall(BOSE_ADDGROUP, get_device_info(arg'[f].master).ip_address),
                  BoxCall(BOSE_ADDGROUP, get_device_info(arg'[f].slave).ip_address)>>]
         /\ pc' = [pc EXCEPT ![f] = "gather"]
         /\ UNCHANGED res

\* groups.service_creategroup from the return o of add_group_endpoint to
\* asyncio.gather
CreateAfterLocal(f, o) ==
    IF ~o.returns
    THEN /\ pc' = [pc EXCEPT ![f] = "spin"]
         /\ UNCHANGED <<files, gid, calls, res>>
    ELSE IF HasErrorTag(o.resp) /\ ~HasGroupTag(o.resp)
    THEN /\ Finish(f, ErrorResponse(409, o.resp.result.msg))
         /\ files' = o.files
         /\ UNCHANGED <<gid, calls>>
    ELSE /\ files' = o.files
         /\ gid' = [gid EXCEPT ![f] = o.resp.result.text.id]
         /\ calls' = [calls EXCEPT ![f] =
                <<BoxCall(BOSE_ADDGROUP, get_device_info(arg'[f].master).ip_address),
                  BoxCall(BOSE_ADDGROUP, get_device_info(arg'[f].slave).ip_address)>>]
         /\ pc' = [pc EXCEPT ![f] = "gather"]
         /\ UNCHANGED res

\* groups.service_creategroup up to asyncio.gather
service_creategroup(f, master, slave) ==
    /\ pc[f] = "idle"
    /\ ~Hung
    /\ op' = [op EXCEPT ![f] = "create"]
    /\ arg' = [arg EXCEPT ![f] = [NoArg EXCEPT !.master = master, !.slave = slave]]
    /\ IF CreateRejected(master, slave) # {}
       THEN /\ \E r \in CreateRejected(master, slave) : Finish(f, r)
            /\ UNCHANGED <<files, gid, calls>>
       ELSE \E o \in add_group_endpoint(files, CreatePayload(master, slave)) :
                CreateAfterLocal(f, o)

\* CreateOk reading the status codes only
CreateOk_status_only(results) ==
    \A i \in 1..Len(results) :
        /\ results[i].out.state # "raised"
        /\ results[i].out.status = HTTP_OK

\* CreateOk passing over the calls that raised
CreateOk_skips_exceptions(results) ==
    \A i \in 1..Len(results) :
        \/ results[i].out.state = "raised"
        \/ results[i].out.status = HTTP_OK /\ results[i].out.body.group_ok

\* How service_creategroup reads the results of asyncio.gather
CreateOk(results) ==
    \A i \in 1..Len(results) :
        /\ results[i].out.state # "raised"
        /\ results[i].out.status = HTTP_OK
        /\ results[i].out.body.group_ok

\* ModOk looking for GROUP_OK in the texts as CreateOk does
ModOk_with_marker(results) ==
    \A i \in 1..Len(results) :
        /\ results[i].out.state # "raised"
        /\ results[i].out.status = HTTP_OK
        /\ results[i].out.body.group_ok

\* How service_modgroup reads the results of asyncio.gather
ModOk(results) ==
    \A i \in 1..Len(results) :
        /\ results[i].out.state # "raised"
        /\ results[i].out.status = HTTP_OK

\* ModGroupLocal creating the updateGroup calls with the stored record
\* still to be rewritten
ModGroupLocal_calls_first(f, groupid, newname) ==
    LET stored_xml == files[GroupFile(groupid)]
        ips == _extract_group_ips(stored_xml)
    IN  /\ gid' = [gid EXCEPT ![f] = groupid]
        /\ IF ~group_exists(files, groupid)
           THEN /\ Finish(f, ErrorResponse(400, Msg("ReadFailed", "", groupid)))
                /\ UNCHANGED <<files, calls>>
           ELSE /\ UNCHANGED files
                /\ calls' = [calls EXCEPT ![f] =
                                [i \in 1..Len(ips) |-> BoxCall(BOSE_UPDATEGROUP, ips[i])]]
                /\ pc' = [pc EXCEPT ![f] = "gather"]
                /\ UNCHANGED res

\* ModGroupLocal storing its payload under an id that has no file
ModGroupLocal_writes_missing(f, groupid, newname) ==
    LET stored_xml == files[GroupFile(groupid)]
        master_dev == _extract_master_device_id(stored_xml)
        ips == _extract_group_ips(stored_xml)
        mod_payload == ET_tostring([EmptyDoc EXCEPT !.name = newname,
                                                    !.masterDeviceId = master_dev], TRUE)
        o == mod_group_endpoint(files, groupid, mod_payload)
    IN  /\ gid' = [gid EXCEPT ![f] = groupid]
        /\ IF ~group_exists(files, groupid)
           THEN /\ Finish(f, ErrorResponse(400, Msg("ReadFailed", "", groupid)))
                /\ files' = WriteFile(files, GroupFile(groupid),
                               _pretty_xml([EmptyDoc EXCEPT !.id = groupid,
                                                            !.name = newname]))
                /\ UNCHANGED calls
           ELSE IF ~ET_fromstring(stored_xml).ok
           THEN /\ Finish(f, ErrorResponse(400, Msg("ParseFailed", "", groupid)))
                /\ UNCHANGED <<files, calls>>
           ELSE IF master_dev = ""
           THEN /\ Finish(f, ErrorResponse(500, Msg("NoStoredMaster", "", groupid)))
                /\ UNCHANGED <<files, calls>>
           ELSE IF Len(ips) # 2
           THEN /\ Finish(f, ErrorResponse(500, Msg("NotTwoIps", "", groupid)))
                /\ UNCHANGED <<files, calls>>
           ELSE IF HasErrorTag(o.resp) /\ ~HasGroupTag(o.resp)
           THEN /\ Finish(f, ErrorResponse(409, o.resp.result.msg))
                /\ files' = o.files
                /\ UNCHANGED calls
           ELSE /\ files' = o.files
                /\ calls' = [calls EXCEPT ![f] =
                                [i \in 1..Len(ips) |-> BoxCall(BOSE_UPDATEGROUP, ips[i])]]
                /\ pc' = [pc EXCEPT ![f] = "gather"]
                /\ UNCHANGED res

\* groups.service_modgroup from the stored file of groupid to asyncio.gather
ModGroupLocal(f, groupid, newname) ==
    LET stored_xml == files[GroupFile(groupid)]
        master_dev == _extract_master_device_id(stored_xml)
        ips == _extract_group_ips(stored_xml)
        mod_payload == ET_tostring([EmptyDoc EXCEPT !.name = newname,
                                                    !.masterDeviceId = master_dev], TRUE)
        o == mod_group_endpoint(files, groupid, mod_payload)
    IN  /\ gid' = [gid EXCEPT ![f] = groupid]
        /\ IF ~group_exists(files, groupid)
           THEN /\ Finish(f, ErrorResponse(400, Msg("ReadFailed", "", groupid)))
                /\ UNCHANGED <<files, calls>>
           ELSE IF ~ET_fromstring(stored_xml).ok
           THEN /\ Finish(f, ErrorResponse(400, Msg("ParseFailed", "", groupid)))
                /\ UNCHANGED <<files, calls>>
           ELSE IF master_dev = ""
           THEN /\ Finish(f, ErrorResponse(500, Msg("NoStoredMaster", "", groupid)))
                /\ UNCHANGED <<files, calls>>
           ELSE IF Len(ips) # 2
           THEN /\ Finish(f, ErrorResponse(500, Msg("NotTwoIps", "", groupid)))
                /\ UNCHANGED <<files, calls>>
           ELSE IF HasErrorTag(o.resp) /\ ~HasGroupTag(o.resp)
           THEN /\ Finish(f, ErrorResponse(409, o.resp.result.msg))
                /\ files' = o.files
                /\ UNCHANGED calls
           ELSE /\ files' = o.files
                /\ calls' = [calls EXCEPT ![f] =
                                [i \in 1..Len(ips) |-> BoxCall(BOSE_UPDATEGROUP, ips[i])]]
                /\ pc' = [pc EXCEPT ![f] = "gather"]
                /\ UNCHANGED res

\* groups.service_modgroup up to asyncio.gather
service_modgroup(f, newname, groupid, name) ==
    /\ pc[f] = "idle"
    /\ ~Hung
    /\ op' = [op EXCEPT ![f] = "rename"]
    /\ arg' = [arg EXCEPT ![f] = [NoArg EXCEPT !.newname = newname,
                                                !.groupid = groupid, !.name = name]]
    /\ IF newname = <<>>
       THEN /\ Finish(f, ErrorResponse(400, Msg("MissingNewname", "", NoId)))
            /\ UNCHANGED <<files, gid, calls>>
       ELSE IF (groupid = NoId) = (name = <<>>)
       THEN /\ Finish(f, ErrorResponse(400, Msg("Usage", "", NoId)))
            /\ UNCHANGED <<files, gid, calls>>
       ELSE IF groupid = NoId /\ _group_id_by_name(files, name) = {}
       THEN /\ Finish(f, ErrorResponse(404, Msg("GroupNameNotFound", "", NoId)))
            /\ UNCHANGED <<files, gid, calls>>
       ELSE \E g \in (IF groupid # NoId THEN {groupid}
                      ELSE _group_id_by_name(files, name)) :
                ModGroupLocal(f, g, newname)

\* groups.service_removegroup from the stored file of groupid to the
\* removeGroup call
RemoveGroupLocal(f, groupid) ==
    LET stored_xml == files[GroupFile(groupid)]
        master_ip == _extract_master_ip(stored_xml)
    IN  /\ gid' = [gid EXCEPT ![f] = groupid]
        /\ IF ~group_exists(files, groupid)
           THEN /\ Finish(f, ErrorResponse(400, Msg("ReadFailed", "", groupid)))
                /\ UNCHANGED calls
           ELSE IF ~ET_fromstring(stored_xml).ok
           THEN /\ Finish(f, ErrorResponse(400, Msg("ParseFailed", "", groupid)))
                /\ UNCHANGED calls
           ELSE IF master_ip = ""
           THEN /\ Finish(f, ErrorResponse(500, Msg("NoMasterIp", "", groupid)))
                /\ UNCHANGED calls
           ELSE /\ calls' = [calls EXCEPT ![f] = <<BoxCall(BOSE_REMOVEGROUP, master_ip)>>]
                /\ pc' = [pc EXCEPT ![f] = "removing"]
                /\ UNCHANGED res

\* groups.service_removegroup up to the await of its _box_call
service_removegroup(f, groupid, name) ==
    /\ pc[f] = "idle"
    /\ ~Hung
    /\ op' = [op EXCEPT ![f] = "remove"]
    /\ arg' = [arg EXCEPT ![f] = [NoArg EXCEPT !.groupid = groupid, !.name = name]]
    /\ UNCHANGED files
    /\ IF (groupid = NoId) = (name = <<>>)
       THEN /\ Finish(f, ErrorResponse(400, Msg("Usage", "", NoId)))
            /\ UNCHANGED <<gid, calls>>
       ELSE IF groupid = NoId /\ _group_id_by_name(files, name) = {}
       THEN /\ Finish(f, ErrorResponse(404, Msg("GroupNameNotFound", "", NoId)))
            /\ UNCHANGED <<gid, calls>>
       ELSE \E g \in (IF groupid # NoId THEN {groupid}
                      ELSE _group_id_by_name(files, name)) :
                RemoveGroupLocal(f, g)

\* RemoveReply deleting the record whatever the box came back with
RemoveReply_always_deletes(f, outcome) ==
    /\ pc[f] = "removing"
    /\ ~Hung
    /\ calls[f][1].out = Pending
    /\ calls' = [calls EXCEPT ![f][1].out = outcome]
    /\ UNCHANGED <<op, arg, gid>>
    /\ LET resp == delete_group_endpoint(files, gid[f]) IN
       /\ files' = resp.files
       /\ IF resp.status_code >= 300
          THEN Finish(f, ErrorResponse(500, Msg("DatastoreDeleteFailed", "", gid[f])))
          ELSE Finish(f, _xml_status(TRUE))

\* groups.service_removegroup from the return of its _box_call to the end
RemoveReply(f, outcome) ==
    /\ pc[f] = "removing"
    /\ ~Hung
    /\ calls[f][1].out = Pending
    /\ calls' = [calls EXCEPT ![f][1].out = outcome]
    /\ UNCHANGED <<op, arg, gid>>
    /\ IF outcome.state = "raised"
       THEN /\ Finish(f, ErrorResponse(500, Msg("RemoveRequestFailed", "", gid[f])))
            /\ UNCHANGED files
       ELSE IF outcome.status # HTTP_OK \/ ~_is_group_empty_xml(outcome.body)
       THEN /\ Finish(f, ErrorResponse(500, Msg("RemoveFailedOnBox", "", gid[f])))
            /\ UNCHANGED files
       ELSE LET resp == delete_group_endpoint(files, gid[f]) IN
            /\ files' = resp.files
            /\ IF resp.status_code >= 300
               THEN Finish(f, ErrorResponse(500, Msg("DatastoreDeleteFailed", "", gid[f])))
               ELSE Finish(f, _xml_status(TRUE))

\* BoxReply putting a name back when a box refused the rename
BoxReply_rename_rollback(f, i, outcome) ==
    /\ pc[f] = "gather"
    /\ ~Hung
    /\ i \in 1..Len(calls[f])
    /\ calls[f][i].out = Pending
    /\ LET results == [calls[f] EXCEPT ![i].out = outcome] IN
       /\ calls' = [calls EXCEPT ![f] = results]
       /\ IF \E j \in 1..Len(results) : results[j].out = Pending
          THEN UNCHANGED <<pc, res, files>>
          ELSE /\ Finish(f, _xml_status(IF op[f] = "create" THEN CreateOk(results)
                                        ELSE ModOk(results)))
               /\ files' = IF op[f] = "rename" /\ ~ModOk(results)
                           THEN modify_group(files, gid[f], <<"o", "l", "d">>,
                                    _extract_master_device_id(files[GroupFile(gid[f])])).files
                           ELSE files
    /\ UNCHANGED <<op, arg, gid>>

\* BoxReply answering as soon as one call has failed
BoxReply_first_failure(f, i, outcome) ==
    /\ pc[f] = "gather"
    /\ ~Hung
    /\ i \in 1..Len(calls[f])
    /\ calls[f][i].out = Pending
    /\ LET results == [calls[f] EXCEPT ![i].out = outcome] IN
       /\ calls' = [calls EXCEPT ![f] = results]
       /\ IF outcome.state = "raised"
          THEN Finish(f, _xml_status(FALSE))
          ELSE IF \E j \in 1..Len(results) : results[j].out = Pending
          THEN UNCHANGED <<pc, res>>
          ELSE Finish(f, _xml_status(IF op[f] = "create" THEN CreateOk(results)
                                     ELSE ModOk(results)))
    /\ UNCHANGED <<files, op, arg, gid>>

\* BoxReply making a failed call once more
BoxReply_retry(f, i, outcome) ==
    /\ pc[f] = "gather"
    /\ ~Hung
    /\ i \in 1..Len(calls[f])
    /\ calls[f][i].out = Pending
    /\ LET results == [calls[f] EXCEPT ![i].out = outcome] IN
       IF outcome.state = "raised" /\ Len(calls[f]) = 2
       THEN /\ calls' = [calls EXCEPT ![f] =
                            Append(results, BoxCall(results[i].path, results[i].ip))]
            /\ UNCHANGED <<pc, res>>
       ELSE /\ calls' = [calls EXCEPT ![f] = results]
            /\ IF \E j \in 1..Len(results) : results[j].out = Pending
               THEN UNCHANGED <<pc, res>>
               ELSE Finish(f, _xml_status(IF op[f] = "create" THEN CreateOk(results)
                                          ELSE ModOk(results)))
    /\ UNCHANGED <<files, op, arg, gid>>

\* BoxReply undoing the local create when a box refused the group
BoxReply_rollback(f, i, outcome) ==
    /\ pc[f] = "gather"
    /\ ~Hung
    /\ i \in 1..Len(calls[f])
    /\ calls[f][i].out = Pending
    /\ LET results == [calls[f] EXCEPT ![i].out = outcome] IN
       /\ calls' = [calls EXCEPT ![f] = results]
       /\ IF \E j \in 1..Len(results) : results[j].out = Pending
          THEN UNCHANGED <<pc, res, files>>
          ELSE /\ Finish(f, _xml_status(IF op[f] = "create" THEN CreateOk(results)
                                        ELSE ModOk(results)))
               /\ files' = IF op[f] = "create" /\ ~CreateOk(results)
                           THEN delete_group(files, gid[f]).files ELSE files
    /\ UNCHANGED <<op, arg, gid>>

\* BoxReply with the handlers taking turns: a gather returns no call while
\* another request is waiting on its own
BoxReply_waits_for_others(f, i, outcome) ==
    /\ pc[f] = "gather"
    /\ ~Hung
    /\ \A g \in Flows \ {f} : pc[g] # "gather"
    /\ i \in 1..Len(calls[f])
    /\ calls[f][i].out = Pending
    /\ LET results == [calls[f] EXCEPT ![i].out = outcome] IN
       /\ calls' = [calls EXCEPT ![f] = results]
       /\ IF \E j \in 1..Len(results) : results[j].out = Pending
          THEN UNCHANGED <<pc, res>>
          ELSE Finish(f, _xml_status(IF op[f] = "create" THEN CreateOk(results)
                                     ELSE ModOk(results)))
    /\ UNCHANGED <<files, op, arg, gid>>

\* One _box_call of a gather comes back; with the last one gather returns
\* and the handler answers.
BoxReply(f, i, outcome) ==
    /\ pc[f] = "gather"
    /\ ~Hung
    /\ i \in 1..Len(calls[f])
    /\ calls[f][i].out = Pending
    /\ LET results == [calls[f] EXCEPT ![i].out = outcome] IN
       /\ calls' = [calls EXCEPT ![f] = results]
       /\ IF \E j \in 1..Len(results) : results[j].out = Pending
          THEN UNCHANGED <<pc, res>>
          ELSE Finish(f, _xml_status(IF op[f] = "create" THEN CreateOk(results)
                                     ELSE ModOk(results)))
    /\ UNCHANGED <<files, op, arg, gid>>

\* A DELETE request on the marge group endpoint
DeleteGroupRequest(group) ==
    /\ ~Hung
    /\ files' = delete_group_endpoint(files, group).files
    /\ UNCHANGED <<pc, op, arg, gid, calls, res>>

\* A POST request on the marge group endpoint with document xml_str; the
\* handler has no await and answers in one step, unless add_group never
\* returns.
PostGroupRequest(f, xml_str) ==
    /\ pc[f] = "idle"
    /\ ~Hung
    /\ op' = [op EXCEPT ![f] = "post"]
    /\ arg' = [arg EXCEPT ![f] = [doc |-> xml_str] @@ NoArg]
    /\ UNCHANGED <<gid, calls>>
    /\ \E o \in add_group_endpoint(files, xml_str) :
           IF ~o.returns
           THEN /\ pc' = [pc EXCEPT ![f] = "spin"]
                /\ UNCHANGED <<files, res>>
           ELSE /\ files' = o.files
                /\ Finish(f, [code |-> o.resp.status_code,
                              kind |-> IF o.resp.wrapped THEN "error" ELSE "group",
                              msg |-> o.resp.result.msg,
                              text |-> o.resp.result.text])

\* A GET request on the marge endpoint for the group of a device; the
\* handler has no await and answers in one step.
DeviceGroupRequest(f, device) ==
    /\ pc[f] = "idle"
    /\ ~Hung
    /\ op' = [op EXCEPT ![f] = "status"]
    /\ arg' = [arg EXCEPT ![f] = [device |-> device] @@ NoArg]
    /\ \E r \in device_group_status(files, device) :
           Finish(f, [code |-> r.status_code,
                      kind |-> IF r.wrapped THEN "error"
                               ELSE IF r.result.isXml THEN "group" ELSE "ungrouped",
                      msg |-> r.result.msg,
                      text |-> r.result.text])
    /\ UNCHANGED <<files, gid, calls>>

\* The response has gone out; the slot takes the next request.
Return(f) ==
    /\ pc[f] = "done"
    /\ ~Hung
    /\ pc' = [pc EXCEPT ![f] = "idle"]
    /\ op' = [op EXCEPT ![f] = ""]
    /\ arg' = [arg EXCEPT ![f] = NoArg]
    /\ gid' = [gid EXCEPT ![f] = NoId]
    /\ calls' = [calls EXCEPT ![f] = <<>>]
    /\ res' = [res EXCEPT ![f] = NoRes]
    /\ UNCHANGED files

(* ------------------------------ requests ------------------------------ *)

\* The group ids a request can name
GroupIds == {Fmt07(n) : n \in 0..MaxId}

NewNames == {<<"L", "&", "R">>}

\* The group names a request can name: those of the stored groups, and one
\* that no group has.
StoredNames(fs) ==
    LET trees == {ET_fromstring(fs[fn]) : fn \in DOMAIN fs} IN
    {Strip(tree.root.name) : tree \in {t \in trees : t.ok}}
RequestNames(fs) == (StoredNames(fs) \cup {<<"Z">>}) \ {<<>>}

\* The documents a POST request carries: a group of d3 and d4 whose first
\* role entry has no address, whose second is the master's, and that names
\* no sender; a group of the same devices whose sender is the second role
\* entry's address and whose root carries an id attribute of the client's;
\* one whose master is in no role entry; one with a single
\* role entry; and one with a single role entry that is not the master's.
PostDocs ==
    {ET_tostring([id |-> NoId, name |-> <<"P">>, masterDeviceId |-> "d4",
                  roles |-> <<GroupRole("d3", "LEFT", ""),
                              GroupRole("d4", "RIGHT", "ip-d4")>>,
                  senderIPAddress |-> ""], TRUE),
     ET_tostring([id |-> Fmt07(0), name |-> <<"V">>, masterDeviceId |-> "d3",
                  roles |-> <<GroupRole("d3", "LEFT", "ip-d3"),
                              GroupRole("d4", "RIGHT", "ip-d4")>>,
                  senderIPAddress |-> "ip-d4"], TRUE),
     ET_tostring([id |-> NoId, name |-> <<"Q">>, masterDeviceId |-> "d2",
                  roles |-> <<GroupRole("d3", "LEFT", "ip-d3"),
                              GroupRole("d4", "RIGHT", "ip-d4")>>,
                  senderIPAddress |-> "ip-d3"], TRUE),
     ET_tostring([id |-> NoId, name |-> <<"S">>, masterDeviceId |-> "d3",
                  roles |-> <<GroupRole("d3", "LEFT", "ip-d3")>>,
                  senderIPAddress |-> "ip-d3"], TRUE),
     ET_tostring([id |-> NoId, name |-> <<"U">>, masterDeviceId |-> "d2",
                  roles |-> <<GroupRole("d3", "LEFT", "ip-d3")>>,
                  senderIPAddress |-> "ip-d3"], TRUE)}

\* groupid= and name= of a rename or remove request
Targets(fs, byName) ==
    {[groupid |-> g, name |-> <<>>] : g \in GroupIds \cup {NoId}}
    \cup {[groupid |-> NoId, name |-> n] : n \in IF byName THEN RequestNames(fs) ELSE {}}

\* The steps of the service requests served in the slots F; R gives the
\* devices the create requests name, whether groups are named by name too,
\* and what the boxes come back with.
NextOf(F, R) ==
    \/ \E f \in F, m \in R.devs, s \in R.devs : service_creategroup(f, m, s)
    \/ \E f \in F, n \in NewNames \cup {<<>>}, t \in Targets(files, R.byName) :
           service_modgroup(f, n, t.groupid, t.name)
    \/ \E f \in F, t \in Targets(files, R.byName) :
           service_removegroup(f, t.groupid, t.name)
    \/ \E f \in F, i \in 1..2, o \in R.post : BoxReply(f, i, o)
    \/ \E f \in F, o \in R.get : RemoveReply(f, o)
    \/ \E f \in F : Return(f)

AllIdle == \A f \in Flows : pc[f] = "idle"

AllRequests ==
    [devs |-> RequestDevices, byName |-> TRUE, post |-> PostOutcomes, get |-> GetOutcomes]

\* Requests served one after the other
Next ==
    \/ NextOf({1}, AllRequests)
    \/ AllIdle /\ \E g \in GroupIds : DeleteGroupRequest(g)
    \/ \E x \in PostDocs : PostGroupRequest(1, x)
    \/ \E d \in RequestDevices \ {""} : DeviceGroupRequest(1, d)

Spec == Init /\ [][Next]_vars

\* Two requests in progress at the same time on the server's event loop: a
\* handler runs alone from one await to the next.
OverlapRequests ==
    [devs |-> {"d1", "d2"}, byName |-> FALSE,
     post |-> {Raised, Replied(200, B_ok)},
     get |-> {Raised, Replied(200, B_empty), Replied(200, B_group)}]

NextOverlap ==
    \/ NextOf(Flows, OverlapRequests)
    \/ \E g \in GroupIds : DeleteGroupRequest(g)

SpecOverlap == Init /\ [][NextOverlap]_vars

\* Two service requests in progress at the same time, and no DELETE request
\* on the marge endpoint: a stored record is then destroyed by remove
\* requests only.
NextServices == NextOf(Flows, OverlapRequests)

SpecServices == Init /\ [][NextServices]_vars

\* A request in slot 1 while create requests come and go in slot 2, with
\* the calls of slot 1 coming back: httpx gives every _box_call a timeout of
\* its own (4 s), so each call either answers or raises. Nothing is assumed
\* of the calls of slot 2.
LiveRequests ==
    [devs |-> {"d1", "d2"}, byName |-> FALSE,
     post |-> {Raised, Replied(200, B_ok)},
     get |-> {Raised, Replied(200, B_empty)}]

BoxCallsReturn(f) ==
    /\ WF_vars(\E i \in 1..2, o \in LiveRequests.post : BoxReply(f, i, o))
    /\ WF_vars(\E o \in LiveRequests.get : RemoveReply(f, o))

NextLive ==
    \/ NextOf({1}, LiveRequests)
    \/ \E m \in LiveRequests.devs, s \in LiveRequests.devs : service_creategroup(2, m, s)
    \/ \E i \in 1..2, o \in LiveRequests.post : BoxReply(2, i, o)
    \/ Return(2)

SpecLive == Init /\ [][NextLive]_vars /\ BoxCallsReturn(1)

(* ------------------------- two server processes ----------------------- *)

\* Two create requests served by two server processes that share the data
\* directory. add_group takes no lock on the directory, so the other
\* process can run between its checks and its write.

\* service_creategroup in one process, up to the last check of add_group
WorkerCreateCheck(f, master, slave) ==
    /\ pc[f] = "idle"
    /\ op' = [op EXCEPT ![f] = "create"]
    /\ arg' = [arg EXCEPT ![f] = [NoArg EXCEPT !.master = master, !.slave = slave]]
    /\ LET xml == CreatePayload(master, slave) IN
       IF CreateRejected(master, slave) # {}
       THEN /\ \E r \in CreateRejected(master, slave) : Finish(f, r)
            /\ UNCHANGED <<files, gid, calls>>
       ELSE IF _generate_group_id(files) = {}
       THEN /\ pc' = [pc EXCEPT ![f] = "drawing"]
            /\ UNCHANGED <<files, gid, calls, res>>
       ELSE \E group_id \in _generate_group_id(files) :
               IF add_group_checks(files, xml, group_id) # {}
               THEN \E e \in add_group_checks(files, xml, group_id) :
                        CreateAfterLocal(f, [returns |-> TRUE,
                                             resp |-> EndpointResponse(e),
                                             files |-> files])
               ELSE /\ pc' = [pc EXCEPT ![f] = "writing"]
                    /\ gid' = [gid EXCEPT ![f] = group_id]
                    /\ UNCHANGED <<files, calls, res>>

\* WorkerCreateWrite holding a lock on the directory: the checks are made
\* again at the write
WorkerCreateWrite_locked(f) ==
    /\ pc[f] = "writing"
    /\ UNCHANGED <<op, arg>>
    /\ LET xml == CreatePayload(arg[f].master, arg[f].slave)
           w == add_group_write(files, xml, gid[f])
       IN  IF add_group_checks(files, xml, gid[f]) # {}
           THEN \E e \in add_group_checks(files, xml, gid[f]) :
                    CreateAfterLocal(f, [returns |-> TRUE, resp |-> EndpointResponse(e),
                                         files |-> files])
           ELSE CreateAfterLocal(f, [returns |-> TRUE,
                                     resp |-> EndpointResponse(w.result),
                                     files |-> w.files])

\* add_group's write in that process, and service_creategroup up to
\* asyncio.gather
WorkerCreateWrite(f) ==
    /\ pc[f] = "writing"
    /\ UNCHANGED <<op, arg>>
    /\ LET w == add_group_write(files, CreatePayload(arg[f].master, arg[f].slave), gid[f])
       IN  CreateAfterLocal(f, [returns |-> TRUE, resp |-> EndpointResponse(w.result),
                                files |-> w.files])

NextWorkers ==
    \/ \E f \in Flows, m \in OverlapRequests.devs, s \in OverlapRequests.devs :
           WorkerCreateCheck(f, m, s)
    \/ \E f \in Flows : WorkerCreateWrite(f)
    \/ \E f \in Flows, i \in 1..2, o \in OverlapRequests.post : BoxReply(f, i, o)
    \/ \E f \in Flows : Return(f)

SpecWorkers == Init /\ [][NextWorkers]_vars

(* ----------------------------- two accounts --------------------------- *)

\* The data directory holds a second account whose devices directory has a
\* group of d1 and d2, stored under the first group id, as a create for
\* these devices writes it.
OtherAccountFiles ==
    LET group_id == Fmt07(0)
        w == add_group_write(NoFiles, CreatePayload("d1", "d2"), group_id)
    IN  [x \in {OtherDevicesDir \o GroupFile(group_id)} |-> w.files[GroupFile(group_id)]]

InitAccounts ==
    /\ files = OtherAccountFiles
    /\ pc = [f \in Flows |-> "idle"]
    /\ op = [f \in Flows |-> ""]
    /\ arg = [f \in Flows |-> NoArg]
    /\ gid = [f \in Flows |-> NoId]
    /\ calls = [f \in Flows |-> <<>>]
    /\ res = [f \in Flows |-> NoRes]

AccountRequests ==
    [devs |-> {"d1", "d2"}, byName |-> TRUE,
     post |-> {Raised, Replied(200, B_ok)},
     get |-> {Raised, Replied(200, B_empty)}]

\* The requests on the account served, one after the other
NextAccounts ==
    \/ NextOf({1}, AccountRequests)
    \/ AllIdle /\ \E g \in GroupIds : DeleteGroupRequest(g)
    \/ \E x \in PostDocs : PostGroupRequest(1, x)
    \/ \E d \in {"d1", "d3"} : DeviceGroupRequest(1, d)

SpecAccounts == InitAccounts /\ [][NextAccounts]_vars

(* --------------------------- a corrupt record ------------------------- *)

\* The devices directory holds the file of a group of d1 and d2 whose write
\* was cut short: the text names the two devices and does not parse.
CorruptFiles ==
    LET group_id == Fmt07(0)
        w == add_group_write(NoFiles, CreatePayload("d1", "d2"), group_id)
    IN  [x \in {GroupFile(group_id)} |->
            [w.files[GroupFile(group_id)] EXCEPT !.closed = FALSE]]

InitCorrupt ==
    /\ files = CorruptFiles
    /\ pc = [f \in Flows |-> "idle"]
    /\ op = [f \in Flows |-> ""]
    /\ arg = [f \in Flows |-> NoArg]
    /\ gid = [f \in Flows |-> NoId]
    /\ calls = [f \in Flows |-> <<>>]
    /\ res = [f \in Flows |-> NoRes]

CorruptRequests ==
    [devs |-> {"d1", "d2", "d3"}, byName |-> TRUE,
     post |-> {Raised, Replied(200, B_ok)},
     get |-> {Raised, Replied(200, B_empty)}]

\* The requests on the account served, one after the other
NextCorrupt ==
    \/ NextOf({1}, CorruptRequests)
    \/ \E d \in {"d1", "d3"} : DeviceGroupRequest(1, d)

SpecCorrupt == InitCorrupt /\ [][NextCorrupt]_vars

(* ---------------------- a record with no address --------------------- *)

\* A document of d3 and d4 that names no sender and gives no role entry an
\* address; the validator asks for neither.
NoAddressDoc ==
    ET_tostring([id |-> NoId, name |-> <<"N">>, masterDeviceId |-> "d3",
                 roles |-> <<GroupRole("d3", "LEFT", ""),
                             GroupRole("d4", "RIGHT", "")>>,
                 senderIPAddress |-> ""], TRUE)

\* The requests served one after the other, the POST of that document
\* among them
NextNoAddress ==
    \/ NextOf({1}, AccountRequests)
    \/ AllIdle /\ \E g \in GroupIds : DeleteGroupRequest(g)
    \/ PostGroupRequest(1, NoAddressDoc)

SpecNoAddress == Init /\ [][NextNoAddress]_vars

(* ---------------------------- the validator --------------------------- *)

\* The documents handed to validate_group_xml: cut short or whole, the name
\* absent, blank, plain or holding a bare "&", the master absent or given,
\* and role entries with and without a device id.
ValidatorNames == {<<>>, <<" ">>, <<"N">>, <<"&">>}
ValidatorRoles ==
    {<<>>,
     <<GroupRole("", "LEFT", "ip-d1")>>,
     <<GroupRole("d1", "LEFT", "ip-d1")>>,
     <<GroupRole("d1", "LEFT", "ip-d1"), GroupRole("d2", "RIGHT", "ip-d2")>>,
     <<GroupRole("", "LEFT", "ip-d1"), GroupRole("d2", "RIGHT", "ip-d2")>>}
ValidatorDocs ==
    {[decl |-> TRUE, closed |-> c, id |-> NoId, name |-> n, masterDeviceId |-> m,
      roles |-> r, senderIPAddress |-> ""] :
        c \in BOOLEAN, n \in ValidatorNames, m \in {"", "d1", "d2"},
        r \in ValidatorRoles}

\* A call of validate_group_xml on the document of slot f
ValidateCall(f) ==
    /\ pc[f] = "idle"
    /\ "doc" \in DOMAIN arg[f]
    /\ op' = [op EXCEPT ![f] = "validate"]
    /\ Finish(f, [code |-> 0, kind |-> "validated",
                  msg |-> Msg(validate_group_xml(arg[f].doc), "", NoId)])
    /\ UNCHANGED <<files, arg, gid, calls>>

InitValidate ==
    /\ files = NoFiles
    /\ pc = [f \in Flows |-> "idle"]
    /\ op = [f \in Flows |-> ""]
    /\ arg \in {[f \in Flows |-> IF f = 1 THEN [doc |-> x] @@ NoArg ELSE NoArg] :
                   x \in ValidatorDocs}
    /\ gid = [f \in Flows |-> NoId]
    /\ calls = [f \in Flows |-> <<>>]
    /\ res = [f \in Flows |-> NoRes]

NextValidate == ValidateCall(1)

SpecValidate == InitValidate /\ [][NextValidate]_vars

(* ===================== properties of the group store ================== *)

\* The group files that parse, and the devices a parsable file names
Parsable(fs) == {fn \in DOMAIN fs : IsGroupFile(fn) /\ ET_fromstring(fs[fn]).ok}
MembersOf(fs, fn) == AllDeviceIds(ET_fromstring(fs[fn]).root)
GroupsHolding(fs, d) == {IdOfFile(fn) : fn \in {x \in Parsable(fs) : d \in MembersOf(fs, x)}}
IsGrouped(fs, d) == GroupsHolding(fs, d) # {}

\* Slot f takes a create request in this step.
CreateStarts(f) == pc[f] = "idle" /\ pc'[f] # "idle" /\ op'[f] = "create"

\* C1: with the requests served one after the other, no device id is a
\* member of two parsable group records of the account.
C1_DeviceInAtMostOneGroup ==
    LET members == [fn \in Parsable(files) |-> MembersOf(files, fn)] IN
    \A a \in DOMAIN members, b \in DOMAIN members :
        a # b => members[a] \cap members[b] = {}

\* C1 witness: a group was created, renamed, and a second group has just
\* been created beside it from two other devices.
C1_Witness ==
    /\ Cardinality(Parsable(files)) = 2
    /\ \E fn \in Parsable(files) : ET_fromstring(files[fn]).root.name \in NewNames
    /\ pc[1] = "done" /\ op[1] = "create" /\ res[1].kind = "GROUP_OK"
    /\ GroupFile(gid[1]) \in Parsable(files)

Known(d) == d \in {"d1", "d2", "d3", "d4", "d5"}
Eligible(d) == d \in {"d1", "d2", "d3", "d4"}
FreeIdExists == \E n \in 0..MaxId : GroupFile(Fmt07(n)) \notin DOMAIN files

\* C3: a create request that names a device of a stored group, both its
\* devices being known to the account, is answered 409 with the conflict
\* message naming a grouped device of the request and the id of the group
\* that holds it, and the files are left as they were.
C3_GroupedDeviceRejected ==
    [][\A f \in Flows :
        LET m == arg'[f].master
            s == arg'[f].slave
        IN  (CreateStarts(f) /\ Known(m) /\ Known(s)
                /\ (IsGrouped(files, m) \/ IsGrouped(files, s)))
            => /\ files' = files
               /\ pc'[f] = "done"
               /\ res'[f].kind = "error" /\ res'[f].code = 409
               /\ res'[f].msg.k = "Conflict"
               /\ res'[f].msg.dev \in {m, s}
               /\ res'[f].msg.grp \in GroupsHolding(files, res'[f].msg.dev)]_vars

\* C3 witness: every group id is taken, and a create request naming the
\* master of a stored group is drawing ids without end instead of being
\* answered.
C3_Witness ==
    /\ pc[1] = "spin" /\ op[1] = "create"
    /\ IsGrouped(files, arg[1].master)
    /\ Known(arg[1].slave)
    /\ ~FreeIdExists

\* C4: a create request with a blank or unknown device, or whose local
\* create is refused (a grouped device, a device of another type), creates
\* no addGroup call and leaves the files as they were; so does every create
\* request that is answered with an error before any call.
C4_FailedCreateTouchesNothing ==
    [][\A f \in Flows :
        CreateStarts(f)
        => LET m == arg'[f].master
               s == arg'[f].slave
               fails == \/ ~Known(m) \/ ~Known(s)
                        \/ IsGrouped(files, m) \/ IsGrouped(files, s)
                        \/ ~Eligible(m) \/ ~Eligible(s)
           IN  /\ fails => (files' = files /\ calls'[f] = <<>> /\ pc'[f] # "gather")
               /\ (pc'[f] = "done") => (fails /\ res'[f].kind = "error")]_vars

\* C4 witness: a create naming a device of another type was answered 409,
\* with no call made and no file written.
C4_Witness ==
    /\ pc[1] = "done" /\ op[1] = "create"
    /\ res[1].code = 409 /\ res[1].msg.k = "TypeMismatch"
    /\ calls[1] = <<>>
    /\ Parsable(files) = {}

\* The response texts of a box that stand for an empty group
EmptyGroupBodies == {B_empty, B_emptyPair}
RemoveSucceeded(out) ==
    out.state = "replied" /\ out.status = 200 /\ out.body \in EmptyGroupBodies

\* C5: when the removeGroup call of a remove request comes back, the file
\* of the group is removed if and only if the call returned status 200 with
\* a text that stands for an empty group; in every other case (exception,
\* other status, other text) the files are left as they were and the
\* request is answered with an error. The flow makes that one call only.
C5_RemoveIffEmptyGroup ==
    [][\A f \in Flows :
        (pc[f] = "removing" /\ pc'[f] # "removing")
        => LET out == calls'[f][1].out
               target == GroupFile(gid[f])
           IN  /\ Len(calls'[f]) = 1 /\ calls'[f][1].path = "/removeGroup"
               /\ target \in DOMAIN files
               /\ (target \notin DOMAIN files') <=> RemoveSucceeded(out)
               /\ RemoveSucceeded(out)
                    => /\ \A fn \in DOMAIN files \ {target} :
                              fn \in DOMAIN files' /\ files'[fn] = files[fn]
                       /\ res'[f].kind = "GROUP_OK"
               /\ ~RemoveSucceeded(out)
                    => /\ files' = files
                       /\ res'[f].kind = "error" /\ res'[f].code = 500]_vars

\* C5 witness: the box answered 200 with <group></group>, and the file of
\* the group is gone.
C5_Witness ==
    /\ pc[1] = "done" /\ op[1] = "remove" /\ res[1].kind = "GROUP_OK"
    /\ calls[1][1].out = Replied(200, B_emptyPair)
    /\ GroupFile(gid[1]) \notin DOMAIN files

\* Slot f's remove flow deletes file fn in this step, its removeGroup call
\* having come back with success.
RemovedByFlow(f, fn) ==
    /\ op[f] = "remove" /\ pc[f] = "removing" /\ pc'[f] = "done"
    /\ fn = GroupFile(gid[f])
    /\ calls'[f][1].path = "/removeGroup"
    /\ RemoveSucceeded(calls'[f][1].out)

NameOf(d) ==
    CASE d = "d1" -> <<"A">>
      [] d = "d2" -> <<"B", "&">>
      [] d = "d3" -> <<"<", "C">>
      [] d = "d4" -> <<"D", ">">>
      [] OTHER -> <<"E">>
ExpectedRecord(m, s, id) ==
    [id |-> id,
     name |-> NameOf(m) \o <<" ", "+", " ">> \o NameOf(s),
     masterDeviceId |-> m,
     roles |-> <<[deviceId |-> m, role |-> "LEFT", ipAddress |-> "ip-" \o m],
                 [deviceId |-> s, role |-> "RIGHT", ipAddress |-> "ip-" \o s]>>,
     senderIPAddress |-> "ip-" \o m]
SomeCallFailed(cs) ==
    \E i \in 1..Len(cs) : cs[i].out # Replied(200, B_ok)

\* C7: when the addGroup calls of a create have all come back and one of
\* them failed, the request is answered GROUP_ERROR and the file written by
\* the local create is still there with what was written; it stays so when
\* the flow has returned.
C7_NoRollback ==
    [][\A f \in Flows :
        /\ (op[f] = "create" /\ pc[f] = "gather" /\ pc'[f] = "done"
                /\ SomeCallFailed(calls'[f]))
             => /\ res'[f].kind = "GROUP_ERROR" /\ res'[f].code = 500
                /\ files' = files
                /\ GroupFile(gid[f]) \in DOMAIN files'
                /\ ET_fromstring(files'[GroupFile(gid[f])]) =
                      [ok |-> TRUE,
                       root |-> ExpectedRecord(arg[f].master, arg[f].slave, gid[f])]
        /\ (op[f] = "create" /\ pc[f] = "done" /\ pc'[f] = "idle")
             => files' = files]_vars

\* C7 witness: the call to the slave raised, the request was answered
\* GROUP_ERROR and the record of the group is stored.
C7_Witness ==
    /\ pc[1] = "done" /\ op[1] = "create" /\ res[1].kind = "GROUP_ERROR"
    /\ calls[1][1].out = Replied(200, B_ok) /\ calls[1][2].out = Raised
    /\ GroupFile(gid[1]) \in Parsable(files)

\* C8: a create request that made its two addGroup calls is answered
\* GROUP_OK exactly when both returned status 200 with a text holding
\* GROUP_OK; an exception, another status or a text without it on either
\* call makes the answer GROUP_ERROR.
C8_CreateOkIffBothOk ==
    \A f \in Flows :
        (pc[f] = "done" /\ op[f] = "create" /\ calls[f] # <<>>)
        => /\ Len(calls[f]) = 2
           /\ res[f].kind \in {"GROUP_OK", "GROUP_ERROR"}
           /\ (res[f].kind = "GROUP_OK" /\ res[f].code = 200)
                <=> \A i \in 1..2 : calls[f][i].out = Replied(200, B_ok)
           /\ (res[f].kind = "GROUP_ERROR" /\ res[f].code = 500)
                <=> \E i \in 1..2 : calls[f][i].out # Replied(200, B_ok)

\* C8 witness: both calls returned 200, one text lacks GROUP_OK, and the
\* request was answered GROUP_ERROR.
C8_Witness ==
    /\ pc[1] = "done" /\ op[1] = "create" /\ res[1].kind = "GROUP_ERROR"
    /\ Len(calls[1]) = 2
    /\ calls[1][1].out = Replied(200, B_ok) /\ calls[1][2].out = Replied(200, B_err)

IsDigits7(id) ==
    Len(id) = 7
    /\ \A i \in 1..7 : id[i] \in {"0", "1", "2", "3", "4", "5", "6", "7", "8", "9"}

\* The create step of slot f stores ExpectedRecord under a new 7-digit id.
Persists(f) ==
    LET id == gid'[f]
        fn == GroupFile(id)
    IN  /\ pc'[f] = "gather"
        /\ IsDigits7(id)
        /\ fn \notin DOMAIN files /\ fn \in DOMAIN files'
        /\ \A x \in DOMAIN files : x \in DOMAIN files' /\ files'[x] = files[x]
        /\ ET_fromstring(files'[fn]) =
              [ok |-> TRUE, root |-> ExpectedRecord(arg'[f].master, arg'[f].slave, id)]

Creatable(m, s) ==
    /\ m # s /\ Eligible(m) /\ Eligible(s)
    /\ ~IsGrouped(files, m) /\ ~IsGrouped(files, s)

\* C9 (amended): provided a group id is free, a create request naming two
\* distinct, ungrouped devices of the eligible type known to the account
\* writes a record under a new 7-digit id with masterDeviceId the master,
\* the two role entries LEFT = master and RIGHT = slave with the addresses
\* of the registry, and the name made of the two device names; parsing the
\* file gives these fields back.
C9_CreatePersistsRecord ==
    [][\A f \in Flows :
        (CreateStarts(f) /\ Creatable(arg'[f].master, arg'[f].slave) /\ FreeIdExists)
        => Persists(f)]_vars

\* C9 as stated: every create request naming two distinct, ungrouped
\* devices of the eligible type known to the account writes that record.
C9_Original ==
    [][\A f \in Flows :
        (CreateStarts(f) /\ Creatable(arg'[f].master, arg'[f].slave))
        => Persists(f)]_vars

\* C9 witness: the record of a group of d2 and d3, whose names hold "&"
\* and "<", is stored and reads back with the name it was given.
C9_Witness ==
    /\ pc[1] = "gather" /\ op[1] = "create"
    /\ arg[1].master = "d2" /\ arg[1].slave = "d3"
    /\ GroupFile(gid[1]) \in Parsable(files)
    /\ ET_fromstring(files[GroupFile(gid[1])]).root.name =
          <<"B", "&", " ", "+", " ", "<", "C">>

\* C10 as stated: every record stored by a create flow has two role
\* entries with two distinct device ids.
C10_TwoDistinctMembers ==
    \A fn \in Parsable(files) :
        LET roles == ET_fromstring(files[fn]).root.roles IN
        Len(roles) = 2 /\ roles[1].deviceId # roles[2].deviceId

(* ------------------------------- rename ------------------------------- *)

\* The parsed record of file fn
RecordOf(fs, fn) == ET_fromstring(fs[fn]).root

\* The distinct addresses the role entries of a record give
RecordedAddresses(fs, fn) ==
    {RecordOf(fs, fn).roles[i].ipAddress : i \in 1..Len(RecordOf(fs, fn).roles)} \ {""}

\* Slot f takes a rename request in this step.
RenameStarts(f) == pc[f] = "idle" /\ pc'[f] # "idle" /\ op'[f] = "rename"

\* C11: no step of a rename flow, whatever the boxes answer, adds or
\* removes a file, and a file it rewrites parses before and after to
\* records that differ in the name only: id, masterDeviceId, the role
\* entries (device id, role, address) and senderIPAddress are the same.
C11_RenameChangesNameOnly ==
    [][\A f \in Flows :
        (op'[f] = "rename" /\ pc[f] \in {"idle", "gather"})
        => /\ DOMAIN files' = DOMAIN files
           /\ \A fn \in DOMAIN files :
                 \/ files'[fn] = files[fn]
                 \/ /\ fn = GroupFile(gid'[f])
                    /\ fn \in Parsable(files) /\ fn \in Parsable(files')
                    /\ RecordOf(files', fn).id = RecordOf(files, fn).id
                    /\ RecordOf(files', fn).masterDeviceId = RecordOf(files, fn).masterDeviceId
                    /\ RecordOf(files', fn).roles = RecordOf(files, fn).roles
                    /\ RecordOf(files', fn).senderIPAddress
                          = RecordOf(files, fn).senderIPAddress
                    /\ RecordOf(files', fn).name = arg'[f].newname]_vars

\* C11 witness: a rename has rewritten the record of a group of d1 and d2
\* under its new name and waits for the boxes.
C11_Witness ==
    /\ pc[1] = "gather" /\ op[1] = "rename"
    /\ GroupFile(gid[1]) \in Parsable(files)
    /\ RecordOf(files, GroupFile(gid[1])) =
          [ExpectedRecord("d1", "d2", gid[1]) EXCEPT !.name = arg[1].newname]

\* C12: a rename request whose stored record does not give exactly two
\* distinct addresses in its role entries is answered with an error, with
\* no updateGroup call created and the files left as they were.
C12_RenameNeedsTwoAddresses ==
    [][\A f \in Flows :
        (RenameStarts(f) /\ gid'[f] # NoId
            /\ GroupFile(gid'[f]) \in Parsable(files)
            /\ Cardinality(RecordedAddresses(files, GroupFile(gid'[f]))) # 2)
        => /\ pc'[f] = "done"
           /\ res'[f].kind = "error"
           /\ calls'[f] = <<>>
           /\ files' = files]_vars

\* C12 witness: the rename of a record whose first role entry has no
\* address was answered 500 with no call made.
C12_Witness ==
    /\ pc[1] = "done" /\ op[1] = "rename" /\ res[1].code = 500
    /\ res[1].msg.k = "NotTwoIps"
    /\ calls[1] = <<>>
    /\ RecordedAddresses(files, GroupFile(gid[1])) = {"ip-d4"}

\* A call came back with something else than status 200
SomeUpdateFailed(cs) ==
    \E i \in 1..Len(cs) : ~(cs[i].out.state = "replied" /\ cs[i].out.status = 200)

\* C13: when the updateGroup calls of a rename have all come back and one
\* of them failed, the request is answered GROUP_ERROR and the stored
\* record keeps the new name; it still does when the flow has returned.
C13_RenameNoRollback ==
    [][\A f \in Flows :
        /\ (op[f] = "rename" /\ pc[f] = "gather" /\ pc'[f] = "done"
                /\ SomeUpdateFailed(calls'[f]))
             => /\ res'[f].kind = "GROUP_ERROR" /\ res'[f].code = 500
                /\ files' = files
                /\ GroupFile(gid[f]) \in Parsable(files')
                /\ RecordOf(files', GroupFile(gid[f])).name = arg[f].newname
        /\ (op[f] = "rename" /\ pc[f] = "done" /\ pc'[f] = "idle")
             => files' = files]_vars

\* C13 witness: one updateGroup call returned 500, the request was
\* answered GROUP_ERROR and the record carries the new name.
C13_Witness ==
    /\ pc[1] = "done" /\ op[1] = "rename" /\ res[1].kind = "GROUP_ERROR"
    /\ Len(calls[1]) = 2
    /\ calls[1][1].out = Replied(500, B_ok) /\ calls[1][2].out = Replied(200, B_ok)
    /\ RecordOf(files, GroupFile(gid[1])).name = arg[1].newname

\* C14: a rename request that made its updateGroup calls is answered
\* GROUP_OK exactly when every call returned status 200, whatever the
\* texts hold; an exception or another status on a call makes the answer
\* GROUP_ERROR.
C14_RenameOkIffAll200 ==
    \A f \in Flows :
        (pc[f] = "done" /\ op[f] = "rename" /\ calls[f] # <<>>)
        => /\ res[f].kind \in {"GROUP_OK", "GROUP_ERROR"}
           /\ (res[f].kind = "GROUP_OK" /\ res[f].code = 200) <=> ~SomeUpdateFailed(calls[f])
           /\ (res[f].kind = "GROUP_ERROR" /\ res[f].code = 500) <=> SomeUpdateFailed(calls[f])

\* C14 witness: both calls returned 200, one with a text that has no
\* GROUP_OK, and the request was answered GROUP_OK.
C14_Witness ==
    /\ pc[1] = "done" /\ op[1] = "rename" /\ res[1].kind = "GROUP_OK"
    /\ Len(calls[1]) = 2
    /\ calls[1][1].out = Replied(200, B_err) /\ calls[1][2].out = Replied(200, B_ok)

\* C15: a create or rename flow that reaches its calls has created both,
\* waits as long as one of them has not come back, and answers only when
\* both have: a call that failed leaves the other one to complete.
C15_BothCallsComplete ==
    \A f \in Flows :
        (op[f] \in {"create", "rename"})
        => /\ (pc[f] = "gather")
                => (Len(calls[f]) = 2 /\ \E i \in 1..2 : calls[f][i].out = Pending)
           /\ (pc[f] = "done" /\ calls[f] # <<>>)
                => (Len(calls[f]) = 2 /\ \A i \in 1..2 : calls[f][i].out # Pending)
           /\ (pc[f] = "done" /\ res[f].kind \in {"GROUP_OK", "GROUP_ERROR"})
                => calls[f] # <<>>

\* C15 witness: the first call of a rename raised, and the second one has
\* come back after it with status 200.
C15_Witness ==
    /\ pc[1] = "done" /\ op[1] = "rename"
    /\ Len(calls[1]) = 2
    /\ calls[1][1].out = Raised /\ calls[1][2].out = Replied(200, B_ok)
    /\ res[1].kind = "GROUP_ERROR"

(* ---------------------------- calls and ids --------------------------- *)

\* The calls cs are n calls of path, none of which has come back
FreshCalls(cs, n, path) ==
    /\ Len(cs) = n
    /\ \A i \in 1..n : cs[i].path = path /\ cs[i].out = Pending

\* C16: a flow creates its calls once: a create one addGroup call for the
\* master's address and one for the slave's, a rename one updateGroup call
\* for each of the two addresses of the stored record, a remove one
\* removeGroup call. After that the calls of a flow change only by one
\* call that had not come back coming back; no call is added, whatever
\* came back, until the flow has answered and returned.
C16_EachCallOnce ==
    [][\A f \in Flows :
        (calls'[f] # calls[f])
        => \/ /\ calls[f] = <<>> /\ pc[f] = "idle"
              /\ \/ /\ op'[f] = "create"
                    /\ FreshCalls(calls'[f], 2, "/addGroup")
                    /\ calls'[f][1].ip = "ip-" \o arg'[f].master
                    /\ calls'[f][2].ip = "ip-" \o arg'[f].slave
                 \/ /\ op'[f] = "rename"
                    /\ FreshCalls(calls'[f], 2, "/updateGroup")
                    /\ calls'[f][1].ip # calls'[f][2].ip
                    /\ {calls'[f][1].ip, calls'[f][2].ip}
                          = RecordedAddresses(files, GroupFile(gid'[f]))
                 \/ /\ op'[f] = "remove"
                    /\ FreshCalls(calls'[f], 1, "/removeGroup")
           \/ /\ Len(calls'[f]) = Len(calls[f])
              /\ \E i \in 1..Len(calls[f]) :
                    /\ calls[f][i].out = Pending /\ calls'[f][i].out # Pending
                    /\ calls'[f] = [calls[f] EXCEPT ![i].out = calls'[f][i].out]
           \/ /\ pc[f] = "done" /\ pc'[f] = "idle" /\ calls'[f] = <<>>]_vars

\* C16 witness: both addGroup calls of a create raised and the request was
\* answered, with two calls made in all.
C16_Witness ==
    /\ pc[1] = "done" /\ op[1] = "create" /\ res[1].kind = "GROUP_ERROR"
    /\ Len(calls[1]) = 2
    /\ calls[1][1].out = Raised /\ calls[1][2].out = Raised
    /\ calls[1][1].ip # calls[1][2].ip

\* C17: a create never takes the id of a file of the account: the file a
\* create flow writes is new, and no step other than the rewrite of a
\* rename changes the text of a file that stays.
C17_CreateNeverOverwrites ==
    [][/\ \A x \in DOMAIN files \cap DOMAIN files' :
             files'[x] # files[x]
             => \E f \in Flows : RenameStarts(f) /\ x = GroupFile(gid'[f])
       /\ \A f \in Flows :
             (CreateStarts(f) /\ pc'[f] = "gather")
             => /\ GroupFile(gid'[f]) \notin DOMAIN files
                /\ DOMAIN files' = DOMAIN files \cup {GroupFile(gid'[f])}]_vars

\* C17 witness: with a file that does not parse under 0000000, a create
\* has written its record under the other id.
C17_Witness ==
    /\ pc[1] = "gather" /\ op[1] = "create"
    /\ GroupFile(Fmt07(0)) \in DOMAIN files \ Parsable(files)
    /\ gid[1] = Fmt07(1)
    /\ GroupFile(gid[1]) \in Parsable(files)

\* C18: in every stored record that parses, masterDeviceId is the device
\* id of one of the role entries.
C18_MasterInRoles ==
    \A fn \in Parsable(files) :
        LET record == RecordOf(files, fn) IN
        \E i \in 1..Len(record.roles) :
            record.roles[i].deviceId = record.masterDeviceId

\* C18 witness: a record whose master is the device of its second role
\* entry is stored, beside a record that has been renamed.
C18_Witness ==
    /\ pc[1] = "done" /\ op[1] = "rename" /\ res[1].kind = "GROUP_OK"
    /\ RecordOf(files, GroupFile(gid[1])).name = arg[1].newname
    /\ \E fn \in Parsable(files) :
          /\ RecordOf(files, fn).masterDeviceId = "d4"
          /\ RecordOf(files, fn).roles[2].deviceId = "d4"

\* C19: whatever files of the account do not parse, the scan for a device
\* returns exactly the ids of the parsable records that hold it: a group
\* id for every device held by one, and none otherwise.
C19_ScanSkipsCorrupt ==
    LET records == [fn \in Parsable(files) |-> MembersOf(files, fn)] IN
    \A d \in KnownDevices :
        LET found == check_device_grouped(files, d)
            holding == {fn \in DOMAIN records : d \in records[fn]}
        IN  /\ found = {IdOfFile(fn) : fn \in holding}
            /\ holding # {} => found # {}

\* C19 witness: beside a file that does not parse, the request for the
\* group of d2 was answered with the record that holds d2.
C19_Witness ==
    /\ DOMAIN files \ Parsable(files) # {}
    /\ pc[1] = "done" /\ op[1] = "status" /\ arg[1].device = "d2"
    /\ res[1].kind = "group"
    /\ "d2" \in AllDeviceIds(ET_fromstring(res[1].text).root)

\* C20: a request for the group of a device is answered with an error
\* when the device is unknown to the account or of another type; else with
\* the marker <group/> exactly when no parsable record holds the device,
\* and else with the text of a stored file whose record holds it.
C20_DeviceGroupStatus ==
    \A f \in Flows :
        (pc[f] = "done" /\ op[f] = "status")
        => LET d == arg[f].device IN
           IF ~Known(d) \/ ~Eligible(d)
           THEN res[f].kind = "error" /\ res[f].code = 400
           ELSE IF ~IsGrouped(files, d)
           THEN res[f].kind = "ungrouped" /\ res[f].code = 200
                   /\ res[f].msg.k = "<group/>"
           ELSE /\ res[f].kind = "group" /\ res[f].code = 200
                /\ \E fn \in Parsable(files) :
                      d \in MembersOf(files, fn) /\ res[f].text = files[fn]

\* C20 witness: the request for d4 was answered with the stored text of
\* the group "P" that holds it.
C20_Witness ==
    /\ pc[1] = "done" /\ op[1] = "status" /\ arg[1].device = "d4"
    /\ res[1].kind = "group"
    /\ ET_fromstring(res[1].text).root.name = <<"P">>

\* The calls of slot f that raised, and those still awaited
RaisedCalls(f) == {i \in 1..Len(calls[f]) : calls[f][i].out.state = "raised"}
PendingCalls(f) == {i \in 1..Len(calls[f]) : calls[f][i].out = Pending}

\* C21 as stated: a call to a box never raises, whatever comes back is a
\* result value.
C21_Original == \A f \in Flows : RaisedCalls(f) = {}

\* C21: a call to a box that fails in transport raises; the flow that
\* made it takes the exception for a failed call: a create or rename whose
\* calls have all come back has answered, with status 500 and GROUP_ERROR
\* when a call raised; a remove whose call raised has answered with status
\* 500 and an error, its record kept.
C21_TransportFailureIsFailure ==
    \A f \in Flows :
        /\ (calls[f] # <<>> /\ PendingCalls(f) = {}) => pc[f] = "done"
        /\ (pc[f] = "done" /\ RaisedCalls(f) # {})
              => /\ res[f].code = 500
                 /\ op[f] \in {"create", "rename"} => res[f].kind = "GROUP_ERROR"
                 /\ op[f] = "remove"
                       => /\ res[f].kind = "error"
                          /\ res[f].msg.k = "RemoveRequestFailed"
                          /\ GroupFile(gid[f]) \in DOMAIN files

\* C21 witness: the addGroup call to the master raised, the one to the
\* slave came back with GROUP_OK, and the create was answered GROUP_ERROR.
C21_Witness ==
    /\ pc[1] = "done" /\ op[1] = "create"
    /\ RaisedCalls(1) = {1}
    /\ calls[1][2].out = Replied(200, B_ok)
    /\ res[1].kind = "GROUP_ERROR"

\* The rules of a group document, in the order of the validator, with the
\* reason reported for each; each rule is read off the document on its own.
RuleReasons ==
    <<"InvalidXML", "MissingOrEmptyName", "MissingMaster", "NoRoleEntries",
      "MasterNotInRoles">>
RuleHolds(x, n) ==
    LET nm == ParseText(x.name) IN
    CASE n = 1 -> x.closed /\ nm.ok
      [] n = 2 -> nm.ok /\ \E i \in 1..Len(nm.text) : nm.text[i] # " "
      [] n = 3 -> x.masterDeviceId # ""
      [] n = 4 -> \E i \in 1..Len(x.roles) : x.roles[i].deviceId # ""
      [] OTHER -> \E i \in 1..Len(x.roles) : x.roles[i].deviceId = x.masterDeviceId
RulesViolated(x) == {n \in 1..Len(RuleReasons) : ~RuleHolds(x, n)}
FirstViolated(x) ==
    IF RulesViolated(x) = {} THEN ""
    ELSE RuleReasons[CHOOSE n \in RulesViolated(x) : \A k \in RulesViolated(x) : n <= k]

\* C22: the validator reports the reason of the first rule, in the order
\* parseability, non-blank name, master present, a role entry with a device
\* id, master among the role device ids, that the document violates, and
\* accepts a document that violates none.
C22_ValidatorOrder ==
    \A f \in Flows :
        (pc[f] = "done" /\ op[f] = "validate")
        => res[f].msg.k = FirstViolated(arg[f].doc)

\* C22 witness: a document that parses, with a blank name, no master and
\* no role entry, was refused for its name.
C22_Witness ==
    /\ pc[1] = "done" /\ op[1] = "validate"
    /\ RulesViolated(arg[1].doc) = {2, 3, 4, 5}
    /\ res[1].msg.k = "MissingOrEmptyName"

\* C23: a create request naming a device that is not of the eligible type,
\* both its devices being known to the account and neither held by a
\* stored group, is answered 409 with the type-mismatch message naming the
\* first such device, with no call made and the files left as they were.
C23_IneligibleRejected ==
    [][\A f \in Flows :
        LET m == arg'[f].master
            s == arg'[f].slave
        IN  (CreateStarts(f) /\ Known(m) /\ Known(s)
                /\ ~IsGrouped(files, m) /\ ~IsGrouped(files, s)
                /\ (~Eligible(m) \/ ~Eligible(s)))
            => /\ files' = files
               /\ calls'[f] = <<>>
               /\ pc'[f] = "done"
               /\ res'[f].kind = "error" /\ res'[f].code = 409
               /\ res'[f].msg.k = "TypeMismatch"
               /\ res'[f].msg.dev = IF ~Eligible(m) THEN m ELSE s]_vars

\* C23 witness: every group id is taken, and a create request naming a
\* device of another type beside an ungrouped one is drawing ids without
\* end instead of being answered.
C23_Witness ==
    /\ pc[1] = "spin" /\ op[1] = "create"
    /\ ~Eligible(arg[1].slave) /\ Known(arg[1].slave)
    /\ Eligible(arg[1].master) /\ ~IsGrouped(files, arg[1].master)
    /\ ~FreeIdExists

\* Slot f takes a remove request in this step.
RemoveStarts(f) == pc[f] = "idle" /\ pc'[f] # "idle" /\ op'[f] = "remove"

\* The first address that the role entries of a record list, "" when they
\* list none
FirstRoleAddress(root) ==
    LET listed == {i \in 1..Len(root.roles) : root.roles[i].ipAddress # ""} IN
    IF listed = {} THEN ""
    ELSE root.roles[CHOOSE i \in listed : \A j \in listed : i <= j].ipAddress

\* C24 as stated: the one removeGroup call goes to the stored sender
\* address when the record names one, otherwise to the address of its
\* first role entry.
C24_Original ==
    [][\A f \in Flows :
        (RemoveStarts(f) /\ calls'[f] # <<>>)
        => LET root == ET_fromstring(files[GroupFile(gid'[f])]).root IN
           /\ Len(calls'[f]) = 1
           /\ calls'[f][1].ip = IF root.senderIPAddress # "" THEN root.senderIPAddress
                                ELSE root.roles[1].ipAddress]_vars

\* C24: a remove request for a parsable record that names a sender or
\* lists a role address makes exactly one call, removeGroup, to the stored
\* sender address when the record names one, otherwise to the first
\* address its role entries list (entries without an address are passed
\* over); the flow never holds a second call.
C24_RemoveTarget ==
    [][\A f \in Flows :
        /\ op'[f] = "remove" => Len(calls'[f]) <= 1
        /\ (RemoveStarts(f) /\ GroupFile(gid'[f]) \in Parsable(files))
           => LET root == ET_fromstring(files[GroupFile(gid'[f])]).root
                  target == IF root.senderIPAddress # "" THEN root.senderIPAddress
                            ELSE FirstRoleAddress(root)
              IN  target # ""
                  => calls'[f] = <<BoxCall("/removeGroup", target)>>]_vars

\* C24 witness: the remove of a record that names no sender and whose
\* first role entry has no address has its call out to the address of the
\* second entry.
C24_Witness ==
    /\ pc[1] = "removing" /\ op[1] = "remove"
    /\ LET root == ET_fromstring(files[GroupFile(gid[1])]).root IN
       /\ root.senderIPAddress = ""
       /\ root.roles[1].ipAddress = ""
       /\ calls[1][1].ip = root.roles[2].ipAddress

\* The files of the account served, and those of the other account
OwnFiles(fs) == [x \in {y \in DOMAIN fs : IsEntry(y)} |-> fs[x]]
OtherFiles(fs) == {x \in DOMAIN fs : ~IsEntry(x)}

\* C25: no request on the account writes, replaces or deletes a group file
\* of the other account; and listing the groups, the membership check of a
\* device, the resolution of a name and the status query give what they
\* give when the other account has no file at all.
C25_AccountScoped ==
    [][/\ \A fn \in OtherFiles(files) :
              fn \in DOMAIN files' /\ files'[fn] = files[fn]
       /\ OtherFiles(files') = OtherFiles(files)
       /\ list_groups(files) = list_groups(OwnFiles(files))
       /\ \A d \in {"d1", "d2", "d3"} :
              /\ check_device_grouped(files, d) = check_device_grouped(OwnFiles(files), d)
              /\ get_device_group_xml(files, d) = get_device_group_xml(OwnFiles(files), d)
       /\ \A n \in RequestNames(files) :
              _group_id_by_name(files, n) = _group_id_by_name(OwnFiles(files), n)]_vars

\* C25 witness: while the other account holds a group of d1 and d2 under
\* the first id, a create for d1 and d2 on the account served has passed
\* the membership check and stored its record under that same id.
C25_Witness ==
    /\ OtherFiles(files) # {}
    /\ pc[1] = "gather" /\ op[1] = "create"
    /\ gid[1] = Fmt07(0)
    /\ GroupFile(gid[1]) \in Parsable(files)
    /\ MembersOf(files, GroupFile(gid[1])) = {"d1", "d2"}
    /\ \E fn \in OtherFiles(files) : files[fn] = files[GroupFile(gid[1])]

\* C26: when every group id of the account is taken by a file, a create
\* request for two devices known to the account enters id generation and
\* stays there: it is never answered, and the files stay as they are. A
\* request is held there in no other case.
C26_ExhaustedNeverReturns ==
    [][\A f \in Flows :
        /\ (CreateStarts(f) /\ Known(arg'[f].master) /\ Known(arg'[f].slave)
                /\ ~FreeIdExists)
              => pc'[f] = "spin" /\ files' = files /\ res'[f] = NoRes
        /\ pc[f] = "spin" => pc'[f] = "spin" /\ files' = files /\ res'[f] = NoRes
        /\ pc'[f] = "spin" => ~FreeIdExists]_vars

\* C26 witness: every group id is taken, and a create request for two
\* eligible devices that no group holds is drawing ids without end.
C26_Witness ==
    /\ pc[1] = "spin" /\ op[1] = "create"
    /\ ~FreeIdExists
    /\ \A d \in {arg[1].master, arg[1].slave} : Eligible(d) /\ ~IsGrouped(files, d)
    /\ arg[1].master # arg[1].slave
    /\ res[1] = NoRes

\* Slot f takes a POST request in this step.
PostStarts(f) == pc[f] = "idle" /\ pc'[f] # "idle" /\ op'[f] = "post"

\* The document that the step hands to the local create of slot f
LocalCreateDoc(f) ==
    IF op'[f] = "post" THEN arg'[f].doc
    ELSE CreatePayload(arg'[f].master, arg'[f].slave)

\* The device ids of the role entries of a document, in listed order
MemberIds(x) ==
    LET withId == SelectSeq(x.roles, LAMBDA r : r.deviceId # "") IN
    [i \in 1..Len(withId) |-> withId[i].deviceId]

\* The checks of a local create on document x, each on its own
FailsValidation(x) == FirstViolated(x) # ""
FailsCount(x) == Len(MemberIds(x)) # 2
FailsMembership(fs, x) == \E i \in 1..Len(MemberIds(x)) : IsGrouped(fs, MemberIds(x)[i])
FailsType(x) == \E i \in 1..Len(MemberIds(x)) : ~Eligible(MemberIds(x)[i])
LocalCreateFails(fs, x) ==
    FailsValidation(x) \/ FailsCount(x) \/ FailsMembership(fs, x) \/ FailsType(x)

\* A step in which slot f hands a document to the local create
LocalCreateStarts(f) ==
    \/ CreateStarts(f) /\ Known(arg'[f].master) /\ Known(arg'[f].slave)
    \/ PostStarts(f) /\ ET_fromstring(arg'[f].doc).ok

\* C27: a local create whose document fails validation, the member count,
\* the membership check or the type check returns its error, whether an id
\* is free or not, and leaves the files as they were.
C27_ChecksBeforeId ==
    [][\A f \in Flows :
        (LocalCreateStarts(f) /\ LocalCreateFails(files, LocalCreateDoc(f)))
        => /\ pc'[f] = "done"
           /\ res'[f].kind = "error"
           /\ files' = files]_vars

\* C27 witness: every group id is taken, and a POST of a document that
\* fails validation is drawing ids without end instead of being answered.
C27_Witness ==
    /\ pc[1] = "spin" /\ op[1] = "post"
    /\ FailsValidation(arg[1].doc)
    /\ ~FreeIdExists

\* The error of a local create on document x by the precedence validation,
\* member count, membership, type; "" when no check fails
ExpectedError(fs, x) ==
    IF FailsValidation(x) THEN FirstViolated(x)
    ELSE IF FailsCount(x) THEN "WrongMemberCount"
    ELSE IF FailsMembership(fs, x) THEN "Conflict"
    ELSE IF FailsType(x) THEN "TypeMismatch"
    ELSE ""

\* C28: a local create whose document fails a check is answered with the
\* error of the first failing check in the order validation, member count,
\* membership of either device, type of either device; so a request with
\* a grouped device and a device of another type is answered with the
\* conflict.
C28_ErrorPrecedence ==
    [][\A f \in Flows :
        (LocalCreateStarts(f) /\ LocalCreateFails(files, LocalCreateDoc(f)))
        => /\ pc'[f] = "done"
           /\ res'[f].msg.k = ExpectedError(files, LocalCreateDoc(f))]_vars

\* C28 witness: every group id is taken, and a create request naming the
\* master of a stored group and a device of another type is drawing ids
\* without end instead of being answered with the conflict.
C28_Witness ==
    /\ pc[1] = "spin" /\ op[1] = "create"
    /\ IsGrouped(files, arg[1].master)
    /\ Known(arg[1].slave) /\ ~Eligible(arg[1].slave)
    /\ ~FreeIdExists

\* C29: the step of a rename flow that creates its updateGroup calls has
\* the record stored under the new name when the calls exist, and once
\* they exist the flow writes no more; a rename whose group has no file,
\* whose stored record does not parse or names no master creates no call,
\* leaves the files as they were and is answered with an error.
C29_RenameWritesBeforeCalls ==
    [][\A f \in Flows :
        /\ (op'[f] = "rename" /\ calls[f] = <<>> /\ calls'[f] # <<>>)
              => /\ GroupFile(gid'[f]) \in Parsable(files')
                 /\ RecordOf(files', GroupFile(gid'[f])).name = arg'[f].newname
                 /\ \A i \in 1..Len(calls'[f]) :
                        calls'[f][i].path = "/updateGroup" /\ calls'[f][i].out = Pending
        /\ (op[f] = "rename" /\ calls[f] # <<>>) => files' = files
        /\ (RenameStarts(f) /\ gid'[f] # NoId
                /\ \/ GroupFile(gid'[f]) \notin Parsable(files)
                   \/ RecordOf(files, GroupFile(gid'[f])).masterDeviceId = "")
              => /\ calls'[f] = <<>>
                 /\ files' = files
                 /\ pc'[f] = "done" /\ res'[f].kind = "error"]_vars

\* C29 witness: a rename has its two updateGroup calls out, none of them
\* back, and the stored record carries the new name.
C29_Witness ==
    /\ pc[1] = "gather" /\ op[1] = "rename"
    /\ FreshCalls(calls[1], 2, "/updateGroup")
    /\ RecordOf(files, GroupFile(gid[1])).name = arg[1].newname

\* The ids of the parsable records of the account that carry name n
NamedRecords(fs, n) ==
    {IdOfFile(fn) : fn \in
        {x \in DOMAIN fs :
            /\ IsGroupFile(x)
            /\ LET record == ET_fromstring(fs[x]) IN
               record.ok /\ Strip(record.root.name) = n}}

\* Slot f takes, in this step, a rename or remove request that names its
\* group by name.
ByNameStarts(f) ==
    /\ RenameStarts(f) \/ RemoveStarts(f)
    /\ arg'[f].groupid = NoId /\ arg'[f].name # <<>>
    /\ op'[f] = "rename" => arg'[f].newname # <<>>

\* C30: the resolution of a name gives the ids of the parsable records
\* that carry the name, files that do not parse being passed over, and
\* none when no parsable record carries it; a rename or remove by a name
\* that no parsable record carries is answered 404, creates no call and
\* leaves the files as they were, and one by a name that resolves works on
\* a record that carries the name.
C30_ResolveByName ==
    [][\A f \in Flows :
        ByNameStarts(f)
        => LET found == NamedRecords(files, arg'[f].name) IN
           /\ _group_id_by_name(files, arg'[f].name) = found
           /\ IF found = {}
              THEN /\ pc'[f] = "done"
                   /\ res'[f].kind = "error" /\ res'[f].code = 404
                   /\ calls'[f] = <<>>
                   /\ files' = files
              ELSE gid'[f] \in found]_vars

\* C30 witness: beside a file that does not parse and a stored group, a
\* remove by a name that no record carries was answered 404 with no call
\* made.
C30_Witness ==
    /\ pc[1] = "done" /\ op[1] = "remove" /\ res[1].code = 404
    /\ arg[1].name # <<>>
    /\ NamedRecords(files, arg[1].name) = {}
    /\ calls[1] = <<>>
    /\ Parsable(files) # {}
    /\ \E fn \in DOMAIN files : IsGroupFile(fn) /\ fn \notin Parsable(files)

(* ------------------------------- C31 ---------------------------------- *)

\* The request of slot f is waiting for its remote calls.
Waiting(f) == pc[f] \in {"gather", "removing"}

\* C31: a create, rename or remove that has made its remote calls returns a
\* result, whatever the other request in progress does, as long as every
\* one of its own calls answers or runs into its own timeout and no create
\* has been made with every id taken (the handler that never returns keeps
\* the event loop). The steps before the calls have no await and are one
\* step of the flow.
C31_EveryFlowReturns == Waiting(1) ~> (pc[1] = "done" \/ Hung)

\* A create has answered GROUP_ERROR after one call timed out and the other
\* answered, while the other request is still waiting for both of its calls.
C31_Witness ==
    /\ op[1] = "create" /\ pc[1] = "done"
    /\ res[1].code = 500
    /\ \E i \in 1..2 : calls[1][i].out = Raised /\ calls[1][3 - i].out = Replied(200, B_ok)
    /\ pc[2] = "gather"
    /\ \A i \in 1..Len(calls[2]) : calls[2][i].out = Pending

(* ------------------------------- C32 ---------------------------------- *)

\* The parsable records of fs whose members are the devices m and s
RecordsOfPair(fs, m, s) == {fn \in Parsable(fs) : MembersOf(fs, fn) = {m, s}}

\* C32: while the record that a create of devices m and s stored is in the
\* store, whatever came of its addGroup calls, a create request for the same
\* two devices is answered 409 with the conflict message naming one of them
\* and that record's group, creates no addGroup call and leaves the files as
\* they were.
C32_RepeatCreateConflict ==
    [][\A f \in Flows :
        LET m == arg'[f].master
            s == arg'[f].slave
        IN  (CreateStarts(f) /\ RecordsOfPair(files, m, s) # {})
            => /\ files' = files
               /\ pc'[f] = "done"
               /\ calls'[f] = <<>>
               /\ res'[f].kind = "error" /\ res'[f].code = 409
               /\ res'[f].msg.k = "Conflict"
               /\ res'[f].msg.dev \in {m, s}
               /\ GroupFile(res'[f].msg.grp) \in RecordsOfPair(files, m, s)]_vars

\* C32 witness: the store holds the record of a create of d1 and d2 and
\* every group id is taken; the repeated create of d1 and d2 is drawing ids
\* without end instead of being answered.
C32_Witness ==
    /\ pc[1] = "spin" /\ op[1] = "create"
    /\ arg[1].master = "d1" /\ arg[1].slave = "d2"
    /\ RecordsOfPair(files, "d1", "d2") # {}
    /\ calls[1] = <<>>
    /\ ~FreeIdExists

(* ------------------------------- C33 ---------------------------------- *)

\* The remove request of slot f is answered GROUP_OK in this step.
RemoveSucceeds(f) ==
    pc[f] = "removing" /\ pc'[f] = "done" /\ res'[f].kind = "GROUP_OK"

\* The create requests that name device d
CreatesNaming(d) ==
    {<<d, s>> : s \in RequestDevices} \cup {<<s, d>> : s \in RequestDevices}

\* C33: when a remove request of group G is answered GROUP_OK, the store it
\* leaves has no record of G; a status query for either device of G's
\* record then gets the ungrouped marker with status 200, and a create
\* request naming either of them returns and is not refused with a conflict
\* that names that device or the group G.
C33_AfterRemoveUngrouped ==
    [][\A f \in Flows :
        RemoveSucceeds(f)
        => LET G == GroupFile(gid[f])
               members == MembersOf(files, G)
           IN  /\ G \notin DOMAIN files'
               /\ members # {}
               /\ \A d \in members :
                     /\ device_group_status(files', d)
                            = {BoseXMLResponse(UngroupedMarker, FALSE, 200)}
                     /\ \A c \in CreatesNaming(d) :
                            CreateRejected(c[1], c[2]) = {}
                            => \A o \in add_group_endpoint(files', CreatePayload(c[1], c[2])) :
                                   /\ o.returns
                                   /\ ~(/\ o.resp.result.msg.k = "Conflict"
                                        /\ \/ o.resp.result.msg.dev = d
                                           \/ o.resp.result.msg.grp = gid[f])]_vars

\* C33 witness: the remove of a group of two devices has been answered
\* GROUP_OK, its record is gone, and another parsable record is still in the
\* store.
C33_Witness ==
    /\ pc[1] = "done" /\ op[1] = "remove" /\ res[1].kind = "GROUP_OK"
    /\ GroupFile(gid[1]) \notin DOMAIN files
    /\ Parsable(files) # {}

(* ------------------------------- C34 ---------------------------------- *)

\* The record that the remove request of slot f read when it started is no
\* longer the stored one: no file has its id, or the file that has it names
\* another target than the one the request called. With no DELETE request
\* the record was then deleted by another remove request since.
Superseded(f) ==
    LET G == GroupFile(gid[f]) IN
    \/ G \notin DOMAIN files
    \/ _extract_master_ip(files[G]) # calls[f][1].ip

\* C34: of two remove requests of one group in progress at the same time,
\* at most one is answered GROUP_OK: once one of them has deleted the record,
\* the other is answered with an error when its call comes back, and leaves
\* the files as they are.
C34_OneRemoveSucceeds ==
    [][\A f \in Flows :
        (pc[f] = "removing" /\ pc'[f] = "done" /\ Superseded(f))
        => /\ res'[f].kind = "error"
           /\ files' = files]_vars

\* C34 witness: a remove request is waiting for its call; the record it
\* read has been deleted by another remove since, and a create has stored
\* the record of another group under the same id.
C34_Witness ==
    /\ pc[2] = "removing"
    /\ GroupFile(gid[2]) \in Parsable(files)
    /\ _extract_master_ip(files[GroupFile(gid[2])]) # calls[2][1].ip

(* ------------------------------- C35 ---------------------------------- *)

\* C35: with a rename and a remove of one group in progress at the same
\* time, no step of the rename adds a file. A rename that comes to its local
\* step when the remove has deleted the record is answered 400 with the
\* read error, makes no updateGroup call and leaves the files as they are;
\* a rename that is waiting for its calls when the remove deletes the record
\* leaves the files as they are when its calls have come back.
C35_RenameNeverRecreates ==
    [][\A f \in Flows :
        /\ (RenameStarts(f) \/ (op[f] = "rename" /\ calls'[f] # calls[f]))
              => DOMAIN files' = DOMAIN files
        /\ (RenameStarts(f) /\ arg'[f].newname # <<>> /\ arg'[f].groupid # NoId
                /\ arg'[f].name = <<>>
                /\ GroupFile(arg'[f].groupid) \notin DOMAIN files)
              => /\ pc'[f] = "done"
                 /\ res'[f] = ErrorResponse(400, Msg("ReadFailed", "", arg'[f].groupid))
                 /\ calls'[f] = <<>>
                 /\ files' = files
        /\ (op[f] = "rename" /\ pc[f] = "gather" /\ calls'[f] # calls[f])
              => files' = files]_vars

\* C35 witness: the remove of a group has been answered GROUP_OK and its
\* record is gone; the rename of the same group in the other slot has been
\* answered with the read error.
C35_Witness ==
    /\ pc[1] = "done" /\ op[1] = "remove" /\ res[1].kind = "GROUP_OK"
    /\ pc[2] = "done" /\ op[2] = "rename" /\ gid[2] = gid[1]
    /\ res[2] = ErrorResponse(400, Msg("ReadFailed", "", gid[1]))
    /\ GroupFile(gid[1]) \notin DOMAIN files

(* ------------------------------- C36 ---------------------------------- *)

\* The group files of fs that do not parse, and the devices that are named
\* in the text of such a file and held by no parsable record
Unparsable(fs) == {fn \in DOMAIN fs : IsGroupFile(fn)} \ Parsable(fs)
NamedInText(fs, fn) == {fs[fn].roles[i].deviceId : i \in 1..Len(fs[fn].roles)}
CorruptOnly(fs, d) ==
    /\ \E fn \in Unparsable(fs) : d \in NamedInText(fs, fn)
    /\ ~IsGrouped(fs, d)

\* Slot f takes a status request in this step.
StatusStarts(f) == pc[f] = "idle" /\ pc'[f] # "idle" /\ op'[f] = "status"

\* C36: a SoundTouch 10 device that only a file that does not parse names
\* counts as ungrouped. A status request for it gets the marker <group/>
\* with status 200; a create request naming it is not refused with a
\* conflict for it, and stores the new record when a free id exists and its
\* other device is eligible and in no group either. A remove or rename
\* request for the id of a file that does not parse is answered 400, makes
\* no call and leaves the files, that file included, as they are.
C36_CorruptRecordIgnored ==
    [][\A f \in Flows :
        LET m == arg'[f].master
            s == arg'[f].slave
            g == GroupFile(arg'[f].groupid)
        IN  /\ (StatusStarts(f) /\ CorruptOnly(files, arg'[f].device)
                    /\ Eligible(arg'[f].device))
                  => /\ pc'[f] = "done"
                     /\ res'[f].kind = "ungrouped" /\ res'[f].code = 200
                     /\ res'[f].msg.k = "<group/>"
            /\ (CreateStarts(f) /\ (CorruptOnly(files, m) \/ CorruptOnly(files, s)))
                  => /\ \A d \in {m, s} :
                            CorruptOnly(files, d)
                            => ~(res'[f].msg.k = "Conflict" /\ res'[f].msg.dev = d)
                     /\ (/\ Eligible(m) /\ Eligible(s) /\ FreeIdExists
                         /\ ~IsGrouped(files, m) /\ ~IsGrouped(files, s))
                          => /\ pc'[f] = "gather"
                             /\ GroupFile(gid'[f]) \in Parsable(files')
                             /\ MembersOf(files', GroupFile(gid'[f])) = {m, s}
                             /\ \A fn \in DOMAIN files :
                                    fn \in DOMAIN files' /\ files'[fn] = files[fn]
            /\ ((RemoveStarts(f) \/ RenameStarts(f))
                    /\ arg'[f].groupid # NoId /\ arg'[f].name = <<>>
                    /\ g \in Unparsable(files))
                  => /\ pc'[f] = "done"
                     /\ res'[f].kind = "error" /\ res'[f].code = 400
                     /\ calls'[f] = <<>>
                     /\ files' = files]_vars

\* C36 witness: the create of d1 and d2, which only the file that does not
\* parse names, has stored its record beside that file and waits for the
\* boxes.
C36_Witness ==
    /\ pc[1] = "gather" /\ op[1] = "create"
    /\ arg[1].master = "d1" /\ arg[1].slave = "d2"
    /\ \E fn \in Unparsable(files) : {"d1", "d2"} \subseteq NamedInText(files, fn)
    /\ MembersOf(files, GroupFile(gid[1])) = {"d1", "d2"}

(* ------------------------------- C37 ---------------------------------- *)

\* C37: every stored group file that parses carries, in the id attribute of
\* its root, the id of its file name: create sets the id it drew on the
\* document it stores, whatever id the document came with, and rename
\* rewrites a record in its own file with the id it has.
C37_IdAttributeIsFileId ==
    LET trees == [fn \in {x \in DOMAIN files : IsGroupFile(x)} |-> ET_fromstring(files[fn])]
    IN  \A fn \in DOMAIN trees : trees[fn].ok => trees[fn].root.id = IdOfFile(fn)

\* C37 witness: the document that came with the id 0000000 was stored
\* under the id 0000001, has been renamed since, and carries 0000001.
C37_Witness ==
    LET fn == GroupFile(Fmt07(1)) IN
    /\ fn \in Parsable(files)
    /\ MembersOf(files, fn) = {"d3", "d4"}
    /\ RecordOf(files, fn).senderIPAddress = "ip-d4"
    /\ RecordOf(files, fn).name \in NewNames
    /\ RecordOf(files, fn).id = Fmt07(1)

(* ------------------------------- C38 ---------------------------------- *)

\* The record stored in file fn names no sender and lists no role address.
NoTargetAddress(fs, fn) ==
    LET root == ET_fromstring(fs[fn]).root IN
    root.senderIPAddress = "" /\ FirstRoleAddress(root) = ""

\* C38: a remove request for a parsable record that names no sender and
\* lists no role address is answered 500 with the message that the master
\* address cannot be determined, makes no removeGroup call and leaves the
\* files, that record included, as they are.
C38_NoTargetNoCall ==
    [][\A f \in Flows :
        (RemoveStarts(f) /\ GroupFile(gid'[f]) \in Parsable(files)
            /\ NoTargetAddress(files, GroupFile(gid'[f])))
        => /\ pc'[f] = "done"
           /\ res'[f] = ErrorResponse(500, Msg("NoMasterIp", "", gid'[f]))
           /\ calls'[f] = <<>>
           /\ files' = files]_vars

\* C38 witness: the remove of the stored group "N", whose record has no
\* address, has been answered 500 and the record is in the store.
C38_Witness ==
    /\ pc[1] = "done" /\ op[1] = "remove"
    /\ res[1].code = 500 /\ res[1].msg.k = "NoMasterIp"
    /\ calls[1] = <<>>
    /\ GroupFile(gid[1]) \in Parsable(files)
    /\ NoTargetAddress(files, GroupFile(gid[1]))
    /\ MembersOf(files, GroupFile(gid[1])) = {"d3", "d4"}

====
